---------------------------- MODULE Spec2Model ----------------------------
(***************************************************************************)
(* A model of multiplot: the Criterion ingestor (src/src/criterion.rs),    *)
(* the trace builder (src/src/trace.rs), the driver (src/src/main.rs) and  *)
(* the ranges and label of the chart (src/src/plot.rs).                    *)
(*                                                                         *)
(* Text is a sequence of one-character strings, so that the character     *)
(* level operations of the code (replace, strip_suffix, split, digit      *)
(* runs, parse) are computed and not assumed.  A path relative to          *)
(* target/criterion is a sequence of such component names.                 *)
(***************************************************************************)
EXTENDS Integers, Sequences, FiniteSets, TLC

VARIABLES
    root_exists,   \* whether <input_path>/target/criterion exists
    tree,          \* the result tree: file path -> file content
    regex,         \* args.regex (a literal pattern)
    pc,            \* position of the run
    error,         \* message of the error or panic that ended the run
    entry,         \* the entry the walk yielded last
    cur,           \* directory the depth-first walk is in
    visited,       \* entries the filter has been applied to
    kept,          \* entries the filter kept
    benchmarks,    \* read_all: parent path -> BenchmarkInfoBuilder
    unreconciled,  \* read_all: keys the final loop has not consumed yet
    result,        \* read_all: the Vec being filled by the final loop
    returned,      \* read_all: the Vec returned by Ok
    input,         \* Traces::new: the records supplied, as a set
    processed,     \* Traces::new: the records consumed so far, in order
    name_to_trace, \* Traces::new: BTreeMap<TraceName, BTreeMap<usize, _>>
    common_throughput_type, \* Traces::new: Option<ThroughputType>
    traces,        \* the Traces value returned by Traces::new
    conv_input,    \* conversion: the Estimate and raw count drawn
    conv_output,   \* conversion: the MeasurementDisplay produced, if any
    output_written, \* whether plot::draw touched the output file
    min_y,         \* args.min_y, the forced lower bound of the Y axis
    max_y,         \* args.max_y, the forced upper bound of the Y axis
    chart,         \* plot::draw: the ranges and the Y label of the chart
    iter_source,   \* TextAndNumbers: the segment being decomposed
    char_indices,  \* TextAndNumbers: position of the next character
    yielded,       \* TextAndNumbers: the fragments yielded so far
    nan_sign       \* the sign bit the build gives the NaN of 0.0 / 0.0

vars == << root_exists, tree, regex, pc, error, entry, cur, visited, kept,
           benchmarks, unreconciled, result, returned, input, processed,
           name_to_trace, common_throughput_type, traces, conv_input,
           conv_output, output_written, min_y, max_y, chart, iter_source,
           char_indices, yielded, nan_sign >>

ingestVars == << root_exists, tree, regex, entry, cur, visited, kept,
                 benchmarks, unreconciled, result, returned >>
traceVars == << input, processed, name_to_trace, common_throughput_type,
                traces >>
convVars == << conv_input, conv_output >>
drawVars == << output_written, min_y, max_y, chart >>
iterVars == << iter_source, char_indices, yielded >>
buildVars == << nan_sign >>

None == [none |-> TRUE]
Some(v) == [some |-> v]
IsSome(o) == o # None

-----------------------------------------------------------------------------
(* Text *)

Digits == {"0", "1", "2", "3", "4", "5", "6", "7", "8", "9"}

\* char::is_ascii_digit
is_ascii_digit(c) == c \in Digits

\* Printable ASCII in code order, from 32 (space) to 126 (~); the double
\* quote (34), the backslash (92) and the backtick (96) hold their places
\* under a long name.
Ascii ==
    << " ", "!", "QUOTE", "#", "$", "%", "&", "'", "(", ")", "*", "+", ",", "-",
       ".", "/", "0", "1", "2", "3", "4", "5", "6", "7", "8", "9", ":", ";",
       "<", "=", ">", "?", "@", "A", "B", "C", "D", "E", "F", "G", "H", "I",
       "J", "K", "L", "M", "N", "O", "P", "Q", "R", "S", "T", "U", "V", "W",
       "X", "Y", "Z", "[", "BACKSLASH", "]", "^", "_", "BACKTICK", "a", "b", "c", "d", "e",
       "f", "g", "h", "i", "j", "k", "l", "m", "n", "o", "p", "q", "r", "s",
       "t", "u", "v", "w", "x", "y", "z", "{", "|", "}", "~" >>

\* The code point of an ASCII character.
CharCode(c) == 31 + CHOOSE i \in 1..Len(Ascii) : Ascii[i] = c

\* The character U+00E9 stands for the characters outside ASCII.
NonAscii == "U+00E9"
\* char::len_utf8
len_utf8(c) == IF c = NonAscii THEN 2 ELSE 1
\* The code point of a character.
CodePoint(c) == IF c = NonAscii THEN 233 ELSE CharCode(c)

\* <str as Ord>::cmp: lexicographic by byte (which, in UTF-8, is by code
\* point), a proper prefix first.
RECURSIVE StrCmp(_, _)
StrCmp(s, t) ==
    IF s = <<>> /\ t = <<>> THEN "Equal"
    ELSE IF s = <<>> THEN "Less"
    ELSE IF t = <<>> THEN "Greater"
    ELSE IF CodePoint(Head(s)) < CodePoint(Head(t)) THEN "Less"
    ELSE IF CodePoint(Head(s)) > CodePoint(Head(t)) THEN "Greater"
    ELSE StrCmp(Tail(s), Tail(t))

\* str::ends_with
EndsWith(s, suffix) ==
    /\ Len(s) >= Len(suffix)
    /\ SubSeq(s, Len(s) - Len(suffix) + 1, Len(s)) = suffix

\* str::strip_suffix, an Option
strip_suffix(s, suffix) ==
    IF EndsWith(s, suffix)
    THEN Some(SubSeq(s, 1, Len(s) - Len(suffix)))
    ELSE None

\* Whether pat occurs in s as a contiguous run.
Contains(s, pat) ==
    \E i \in 1..(Len(s) - Len(pat) + 1) :
        SubSeq(s, i, i + Len(pat) - 1) = pat

\* Regex::is_match for a pattern without metacharacters: an unanchored
\* search for the literal text (the empty pattern matches every name).
is_match(re, s) == Contains(s, re)

\* str::split on a separator character: the segments, empty ones included.
RECURSIVE split(_, _)
split(s, sep) ==
    IF \A i \in 1..Len(s) : s[i] # sep THEN << s >>
    ELSE LET k == CHOOSE i \in 1..Len(s) :
                     s[i] = sep /\ \A j \in 1..(i - 1) : s[j] # sep
         IN << SubSeq(s, 1, k - 1) >> \o split(SubSeq(s, k + 1, Len(s)), sep)

-----------------------------------------------------------------------------
(* Names of the Criterion layout *)

s_report == << "r", "e", "p", "o", "r", "t" >>
s_new == << "n", "e", "w" >>
s_base == << "b", "a", "s", "e" >>
s_benchmark == << "b", "e", "n", "c", "h", "m", "a", "r", "k" >>
s_estimates == << "e", "s", "t", "i", "m", "a", "t", "e", "s" >>
s_dot_json == << ".", "j", "s", "o", "n" >>
s_benchmark_json == s_benchmark \o s_dot_json
s_estimates_json == s_estimates \o s_dot_json
s_sample_json == << "s", "a", "m", "p", "l", "e" >> \o s_dot_json
s_raw_csv == << "r", "a", "w", ".", "c", "s", "v" >>
s_index_html == << "i", "n", "d", "e", "x", ".", "h", "t", "m", "l" >>

-----------------------------------------------------------------------------
(* criterion.rs: the pruning filter *)

\* A plausible slip: the directory name is taken as the group name.
guess_benchmark_name_verbatim(benchmark_group_dir) == benchmark_group_dir

\* guess_benchmark_name: every '_' of the directory name becomes '/'.
guess_benchmark_name(benchmark_group_dir) ==
    [i \in 1..Len(benchmark_group_dir) |->
        IF benchmark_group_dir[i] = "_" THEN "/" ELSE benchmark_group_dir[i]]

\* A plausible slip: the HTML report of a benchmark (depth 2) is not pruned.
dir_entry_filter_no_report2(re, relative_path) ==
    IF Len(relative_path) = 0 THEN "keep"
    ELSE IF relative_path[1] = s_report THEN "drop"
    ELSE IF ~is_match(re, guess_benchmark_name(relative_path[1])) THEN "drop"
    ELSE IF Len(relative_path) <= 2 THEN "keep"
    ELSE IF relative_path[3] # s_new THEN "drop"
    ELSE IF Len(relative_path) = 3 THEN "keep"
    ELSE IF strip_suffix(relative_path[4], s_dot_json) = None THEN "panic"
    ELSE IF strip_suffix(relative_path[4], s_dot_json).some
                \in {s_benchmark, s_estimates}
         THEN "keep" ELSE "drop"

\* dir_entry_filter: "keep" (true), "drop" (false), or "panic" when the
\* fourth component does not end in ".json" (the expect of line 270).
dir_entry_filter(re, relative_path) ==
    IF Len(relative_path) = 0 THEN "keep"
    ELSE IF relative_path[1] = s_report THEN "drop"
    ELSE IF ~is_match(re, guess_benchmark_name(relative_path[1])) THEN "drop"
    ELSE IF Len(relative_path) = 1 THEN "keep"
    ELSE IF relative_path[2] = s_report THEN "drop"
    ELSE IF Len(relative_path) = 2 THEN "keep"
    ELSE IF relative_path[3] # s_new THEN "drop"
    ELSE IF Len(relative_path) = 3 THEN "keep"
    ELSE IF strip_suffix(relative_path[4], s_dot_json) = None THEN "panic"
    ELSE IF strip_suffix(relative_path[4], s_dot_json).some
                \in {s_benchmark, s_estimates}
         THEN "keep" ELSE "drop"

\* Path::parent of a non-empty relative path.
parent(path) == SubSeq(path, 1, Len(path) - 1)

\* Path::file_stem of a file name: the name up to its last '.', the whole
\* name when it has no '.' or only a leading one.
file_stem(name) ==
    LET dots == {i \in 2..Len(name) : name[i] = "."}
    IN  IF dots = {} THEN name
        ELSE SubSeq(name, 1, (CHOOSE i \in dots : \A j \in dots : j <= i) - 1)

-----------------------------------------------------------------------------
(* f32 values, as IEEE 754 binary32 holds them.  A finite value is         *)
(* (-1)^sign * m * 2^e with m below 2^24: a normal value has m at least    *)
(* 2^23 and e in -149..104, a subnormal value and zero have e = -149.      *)
(* Arithmetic rounds to the nearest value, ties to the even mantissa,      *)
(* overflows to an infinity and underflows through the subnormal values.   *)
(* The sign of the NaN of an invalid operation is the hardware's: set on    *)
(* x86, clear on ARM; nan_sign holds it.  Every intermediate number of the  *)
(* computation stays below 2^31.  The steps of the arithmetic are written  *)
(* as functions: a function is applied to the value of its argument.      *)

\* f32::MANTISSA_DIGITS
MantissaDigits == 24
\* The exponent of the unit of the subnormal values, f32::MIN_EXP - 24 ...
MinExponent == -149
\* ... and of the unit of the largest finite values, f32::MAX_EXP - 24.
MaxExponent == 104

SignBit == {0, 1}

Pow2[k \in Nat] == IF k = 0 THEN 1 ELSE 2 * Pow2[k - 1]

Pow10[k \in Nat] == IF k = 0 THEN 1 ELSE 10 * Pow10[k - 1]

\* The number of bits of n.
BitLen[n \in Nat] == IF n = 0 THEN 0 ELSE 1 + BitLen[n \div 2]

Fin(sign, m, e) == [kind |-> "fin", sign |-> sign, m |-> m, e |-> e]
Inf(sign) == [kind |-> "inf", sign |-> sign, m |-> 0, e |-> 0]
NaN(sign) == [kind |-> "nan", sign |-> sign, m |-> 0, e |-> 0]
Zero(sign) == Fin(sign, 0, MinExponent)
PosInf == Inf(0)

IsZero(x) == x.kind = "fin" /\ x.m = 0

\* The sign of a product or quotient.
SignOf(a, b) == (a.sign + b.sign) % 2

\* A rounded mantissa with its exponent: a carry out of the mantissa moves
\* to the next exponent, an exponent above the largest is an infinity.
Pack[sign \in SignBit, m \in Nat, e \in Int] ==
    LET carried == m = Pow2[MantissaDigits]
        mantissa == IF carried THEN Pow2[MantissaDigits - 1] ELSE m
        exponent == IF carried THEN e + 1 ELSE e
    IN  IF exponent > MaxExponent THEN Inf(sign)
        ELSE Fin(sign, mantissa, exponent)

\* The f32 nearest to (-1)^sign * (M + f) * 2^e, where 0 <= f < 1 and
\* sticky tells whether f > 0; M has 25 bits or more whenever sticky holds.
RoundToF32[sign \in SignBit, M \in Nat, sticky \in BOOLEAN, e \in Int] ==
    LET shift == IF BitLen[M] - MantissaDigits >= MinExponent - e
                 THEN BitLen[M] - MantissaDigits ELSE MinExponent - e
    IN  IF M = 0 THEN Zero(sign)
        ELSE IF shift <= 0 THEN Pack[sign, M * Pow2[-shift], e + shift]
        ELSE IF shift > BitLen[M] THEN Zero(sign)
        ELSE LET retained == M \div Pow2[shift]
                 lost == M % Pow2[shift]
                 half == Pow2[shift - 1]
                 up == \/ lost > half
                       \/ lost = half /\ (sticky \/ retained % 2 = 1)
             IN  Pack[sign, IF up THEN retained + 1 ELSE retained, e + shift]

\* The quotient q and remainder r of a division by d, carried on bit by
\* bit until the quotient has `bits` bits; k counts the bits added.
LongDiv[q \in Nat, r \in Nat, d \in Nat, k \in Nat, bits \in Nat] ==
    IF q >= Pow2[bits - 1] THEN [q |-> q, r |-> r, k |-> k]
    ELSE IF 2 * r >= d THEN LongDiv[2 * q + 1, 2 * r - d, d, k + 1, bits]
    ELSE LongDiv[2 * q, 2 * r, d, k + 1, bits]

\* The f32 nearest to (-1)^sign * p/q * 2^e, for p > 0 and 0 < q <= 2^30.
RoundRatio[sign \in SignBit, p \in Nat, q \in Nat, e \in Int] ==
    LET quotient == LongDiv[p \div q, p % q, q, 0, MantissaDigits + 2]
    IN  RoundToF32[sign, quotient.q, quotient.r # 0, e - quotient.k]

\* u64 as f32 (for the counts below 2^31).
F(n) == RoundToF32[0, n, FALSE, 0]

\* The literals of the source, which the compiler rounds to f32.
F1em9 == RoundRatio[0, 1, Pow10[9], 0]
F0_95 == RoundRatio[0, 95, Pow10[2], 0]

\* A number of a JSON text: (-1)^sign * digits / 10^scale, with digits
\* below 2^31 and scale in 0..9.
JsonNumber(sign, digits, scale) ==
    [sign |-> sign, digits |-> digits, scale |-> scale]

\* f64 as f32 of the f64 that serde_json reads from such a number: the
\* quotient is rounded to the 53 bits of an f64, then to f32.
f64_as_f32[sign \in SignBit, digits \in Nat, scale \in Nat] ==
    IF digits = 0 THEN Zero(sign)
    ELSE LET high == LongDiv[digits \div Pow10[scale], digits % Pow10[scale],
                             Pow10[scale], 0, MantissaDigits + 2]
             \* the bits after those of high.q: the rest of the 53, and 2 more
             more == 53 - BitLen[high.q]
             low == LongDiv[1, high.r, Pow10[scale], 0, more + 3]
             retained == (low.q - Pow2[more + 2]) \div 4
             lost == (low.q - Pow2[more + 2]) % 4
             up == lost > 2 \/ (lost = 2 /\ (low.r # 0 \/ retained % 2 = 1))
             low53 == IF up THEN retained + 1 ELSE retained
             carry == low53 = Pow2[more]
         IN  RoundToF32[sign,
                        IF carry THEN high.q + 1 ELSE high.q,
                        ~carry /\ low53 # 0,
                        -high.k]

\* <f32 as Deserialize>::deserialize from a JSON number
deserialize_f32(number) ==
    f64_as_f32[number.sign, number.digits, number.scale]

\* The mantissa of a finite non-zero value moved up to 24 bits.
Normalize[m \in Nat, e \in Int] ==
    [m |-> m * Pow2[MantissaDigits - BitLen[m]],
     e |-> e - (MantissaDigits - BitLen[m])]

\* a * b: the 48 bits of the product of the mantissas, computed on halves
\* of 12 bits, rounded to 24.  A NaN operand is the result, sign included
\* (the first one when both are NaN); the same holds for a / b.
FMul(a, b) ==
    IF a.kind = "nan" THEN a
    ELSE IF b.kind = "nan" THEN b
    ELSE IF a.kind = "inf" \/ b.kind = "inf"
         THEN IF IsZero(a) \/ IsZero(b) THEN NaN(nan_sign)
              ELSE Inf(SignOf(a, b))
    ELSE IF IsZero(a) \/ IsZero(b) THEN Zero(SignOf(a, b))
    ELSE LET x == Normalize[a.m, a.e]
             y == Normalize[b.m, b.e]
             half == Pow2[12]
             x1 == x.m \div half
             x0 == x.m % half
             y1 == y.m \div half
             y0 == y.m % half
             middle == x1 * y0 + x0 * y1
             low == x0 * y0 + (middle % half) * half
             high == x1 * y1 + middle \div half + low \div Pow2[24]
             rest == low % Pow2[24]
         IN  RoundToF32[SignOf(a, b), 4 * high + rest \div Pow2[22],
                        rest % Pow2[22] # 0, x.e + y.e + 22]

\* a / b
FDiv(a, b) ==
    IF a.kind = "nan" THEN a
    ELSE IF b.kind = "nan" THEN b
    ELSE IF a.kind = "inf"
         THEN IF b.kind = "inf" THEN NaN(nan_sign) ELSE Inf(SignOf(a, b))
    ELSE IF b.kind = "inf" THEN Zero(SignOf(a, b))
    ELSE IF IsZero(b)
         THEN IF IsZero(a) THEN NaN(nan_sign) ELSE Inf(SignOf(a, b))
    ELSE IF IsZero(a) THEN Zero(SignOf(a, b))
    ELSE RoundRatio[SignOf(a, b), a.m, b.m, a.e - b.e]

\* a == b, as IEEE compares: NaN equals nothing, the two zeros are equal.
FEq(a, b) ==
    /\ a.kind # "nan" /\ b.kind # "nan"
    /\ a = b \/ (IsZero(a) /\ IsZero(b))

-----------------------------------------------------------------------------
(* criterion.rs: the records *)

ThroughputTypes == {"Bytes", "BytesDecimal", "Elements"}

\* Throughput::Bytes(n), BytesDecimal(n), Elements(n)
Throughput(type, n) == [type |-> type, value |-> n]

\* split_throughput
split_throughput(throughput) == << throughput.type, throughput.value >>

Benchmark(group_id, value_str, throughput) ==
    [group_id |-> group_id, value_str |-> value_str, throughput |-> throughput]

Estimate(confidence_level, lower_bound, point_estimate, upper_bound) ==
    [confidence_interval |->
        [confidence_level |-> confidence_level,
         lower_bound |-> lower_bound,
         upper_bound |-> upper_bound],
     point_estimate |-> point_estimate,
     standard_error |-> Zero(0)]

Estimates(median) == [median |-> median]

BenchmarkInfo(benchmark, estimates) ==
    [benchmark |-> benchmark, estimates |-> estimates]

\* BenchmarkInfoBuilder::default()
BenchmarkInfoBuilderDefault == [benchmark |-> None, estimates |-> None]

-----------------------------------------------------------------------------
(* The result trees and patterns the runs are drawn from *)

\* Most files a drawn tree holds.
MaxFiles == 4

s_a == << "a" >>
s_a_b == << "a", "_", "b" >>
s_a_slash_b == << "a", "/", "b" >>
s_1 == << "1" >>
s_2 == << "2" >>
s_x == << "x" >>

\* The two data files of benchmarks a/1, a/2 and a_b/1 (group a/b) ...
StandardFiles ==
    {<< g, s_1, s_new, f >> :
        g \in {s_a, s_a_b}, f \in {s_benchmark_json, s_estimates_json}}
    \cup {<< s_a, s_2, s_new, f >> : f \in {s_benchmark_json, s_estimates_json}}
\* ... and the files around them: under a report directory at depth 1 or 2,
\* in an older dataset, other files of a new dataset, report pages, and a
\* file below a directory that bears a data file's name.
OtherFiles ==
    {<< s_report, s_1, s_new, f >> : f \in {s_benchmark_json, s_estimates_json}}
    \cup {<< s_a, s_report, s_new, f >> : f \in {s_benchmark_json, s_estimates_json}}
    \cup {<< s_a, s_1, s_base, f >> : f \in {s_benchmark_json, s_estimates_json}}
    \cup {<< s_a, s_1, s_new, f >> : f \in {s_raw_csv, s_sample_json}}
    \cup {<< s_report, s_index_html >>, << s_a, s_report, s_index_html >>}
    \cup {<< s_a_b, s_1, s_new, s_estimates_json, s_x >>}
FileUniverse == StandardFiles \cup OtherFiles

\* No file of a tree lies below another file.
IsTree(files) ==
    \A p \in files, q \in files :
        Len(p) < Len(q) => SubSeq(q, 1, Len(p)) # p

\* How the files of a drawn tree were written: whether the group stored in
\* directory a_b is named a_b (a literal '_') or a/b,
\* whether group a/b measures elements and not bytes, whether the
\* estimates of group a are undecodable.
Variants ==
    {[literal_ids |-> FALSE, mixed |-> FALSE, malformed |-> FALSE],
     [literal_ids |-> TRUE, mixed |-> FALSE, malformed |-> FALSE],
     [literal_ids |-> FALSE, mixed |-> TRUE, malformed |-> FALSE],
     [literal_ids |-> FALSE, mixed |-> FALSE, malformed |-> TRUE]}

\* The median time written for a benchmark: distinct per directory.
TimeOf(path) ==
    (IF path[1] = s_a THEN 1 ELSE IF path[1] = s_a_b THEN 4 ELSE 7)
    + (IF path[2] = s_1 THEN 0 ELSE 10)

\* The bytes of the file at path in a tree written as variant v.
ContentOf(path, v) ==
    IF Len(path) = 4 /\ path[4] = s_benchmark_json
    THEN [kind |-> "benchmark",
          json |-> Benchmark(
              IF path[1] = s_a_b /\ ~v.literal_ids THEN s_a_slash_b ELSE path[1],
              path[2],
              Throughput(IF v.mixed /\ path[1] = s_a_b
                         THEN "Elements" ELSE "Bytes", 1))]
    ELSE IF Len(path) = 4 /\ path[4] = s_estimates_json
              /\ ~(v.malformed /\ path[1] = s_a)
    THEN [kind |-> "estimates",
          json |-> [median |->
                       [confidence_interval |->
                           [confidence_level |-> JsonNumber(0, 95, 2),
                            lower_bound |-> JsonNumber(0, TimeOf(path), 0),
                            upper_bound |-> JsonNumber(0, TimeOf(path) + 2, 0)],
                        point_estimate |-> JsonNumber(0, TimeOf(path) + 1, 0),
                        standard_error |-> JsonNumber(0, 0, 0)]]]
    ELSE [kind |-> "other"]

\* The patterns a run is drawn with: "" (matches every name), "b", "/".
Patterns == {<< >>, << "b" >>, << "/" >>}

\* serde_json::from_slice::<Benchmark>, an Option
decode_benchmark(json_bytes) ==
    IF json_bytes.kind = "benchmark" THEN Some(json_bytes.json) ELSE None

\* serde_json::from_slice::<Estimates>, an Option: the f32 fields are
\* decoded from the numbers of the text.
decode_estimates(json_bytes) ==
    IF json_bytes.kind = "estimates"
    THEN LET median == json_bytes.json.median
             interval == median.confidence_interval
         IN  Some(Estimates(
                 [confidence_interval |->
                     [confidence_level |-> deserialize_f32(interval.confidence_level),
                      lower_bound |-> deserialize_f32(interval.lower_bound),
                      upper_bound |-> deserialize_f32(interval.upper_bound)],
                  point_estimate |-> deserialize_f32(median.point_estimate),
                  standard_error |-> deserialize_f32(median.standard_error)]))
    ELSE None

-----------------------------------------------------------------------------
(* The walk of WalkDir::new(criterion_path) *)

\* Every entry of the tree: its files, their directories and the root.
Entries ==
    DOMAIN tree
    \cup UNION {{SubSeq(p, 1, k) : k \in 0..(Len(p) - 1)} : p \in DOMAIN tree}
    \cup {<< >>}

is_file(e) == e \in DOMAIN tree

Children(dir) == {e \in Entries : Len(e) = Len(dir) + 1 /\ parent(e) = dir}

\* The entries the iterator can yield next: the root first, then, depth
\* first, an entry of the deepest directory on the way to cur that still
\* has one (read_dir gives the entries of a directory in no fixed order).
WalkNext ==
    IF << >> \notin visited THEN {<< >>}
    ELSE LET open == {k \in 0..Len(cur) :
                         Children(SubSeq(cur, 1, k)) \ visited # {}}
         IN  IF open = {} THEN {}
             ELSE Children(SubSeq(cur, 1,
                      CHOOSE k \in open : \A j \in open : j <= k)) \ visited

-----------------------------------------------------------------------------
(* criterion.rs: read_all *)

\* An anyhow error or a panic: its message and the values formatted in it.
Err(msg) == [msg |-> msg, args |-> << >>]
ErrWith(msg, args) == [msg |-> msg, args |-> args]
NoError == Err("")

\* The body of the walk loop (lines 30-69) for a kept entry of depth >= 4:
\* the error it returns, or the map with the decoded record stored.
LoadEntry(e) ==
    IF ~is_file(e)
    THEN [err |-> Some(Err("Should only walk through criterion data files"))]
    ELSE
    LET json_bytes == tree[e]
        parent_dir == parent(e)
        with_entry ==
            IF parent_dir \in DOMAIN benchmarks THEN benchmarks
            ELSE benchmarks @@ (parent_dir :> BenchmarkInfoBuilderDefault)
        stem == file_stem(e[Len(e)])
    IN  IF stem = s_benchmark
        THEN LET benchmark == decode_benchmark(json_bytes)
             IN  IF benchmark = None
                 THEN [err |-> Some(Err(
                         "Failed to decode criterion benchmark metadata"))]
                 ELSE IF ~is_match(regex, benchmark.some.group_id)
                 THEN [err |-> Some(Err(
                         "Benchmark group ID should match user-specified regex if directory name does"))]
                 ELSE [err |-> None,
                       benchmarks |->
                           [with_entry EXCEPT ![parent_dir].benchmark = benchmark]]
        ELSE IF stem = s_estimates
        THEN LET estimates == decode_estimates(json_bytes)
             IN  IF estimates = None
                 THEN [err |-> Some(Err(
                         "Failed to decode criterion benchmark result estimates"))]
                 ELSE [err |-> None,
                       benchmarks |->
                           [with_entry EXCEPT ![parent_dir].estimates = estimates]]
        ELSE [err |-> Some(Err(
                 "No support for parsing this Criterion output yet"))]

\* read_all, lines 15-22: the result root must exist.
ReadAllStart ==
    /\ pc = "read_all"
    /\ IF root_exists
       THEN pc' = "walk" /\ error' = error
       ELSE /\ pc' = "failed"
            /\ error' = Err(
                 "No criterion data found. Have you run the benchmark yet?")
    /\ UNCHANGED << ingestVars, traceVars, convVars, drawVars, iterVars, buildVars >>

\* One turn of the walk (lines 25-70): the iterator yields entry e, the
\* filter prunes it or keeps it, and a kept entry of depth >= 4 is loaded.
WalkStep ==
    /\ pc = "walk"
    /\ \E e \in WalkNext :
        LET verdict == dir_entry_filter(regex, e)
            dir == IF e = << >> THEN << >> ELSE parent(e)
            loaded == LoadEntry(e)
        IN  /\ entry' = e
            /\ visited' = visited \cup {e}
            /\ kept' = IF verdict = "keep" THEN kept \cup {e} ELSE kept
            /\ IF verdict = "panic"
               THEN /\ pc' = "panicked"
                    /\ error' = Err("Criterion data files should all be JSON")
                    /\ UNCHANGED << cur, benchmarks >>
               ELSE IF verdict = "drop" \/ Len(e) < 4
               THEN /\ cur' = IF verdict = "keep" /\ ~is_file(e) THEN e ELSE dir
                    /\ UNCHANGED << pc, error, benchmarks >>
               ELSE IF loaded.err # None
               THEN /\ pc' = "failed"
                    /\ error' = loaded.err.some
                    /\ UNCHANGED << cur, benchmarks >>
               ELSE /\ benchmarks' = loaded.benchmarks
                    /\ cur' = dir
                    /\ UNCHANGED << pc, error >>
    /\ UNCHANGED << root_exists, tree, regex, unreconciled, result, returned,
                    traceVars, convVars, drawVars, iterVars, buildVars >>

\* The walk is over (the iterator returns None): line 73.
WalkEnd ==
    /\ pc = "walk"
    /\ WalkNext = {}
    /\ pc' = "reconcile"
    /\ unreconciled' = DOMAIN benchmarks
    /\ result' = << >>
    /\ UNCHANGED << root_exists, tree, regex, error, entry, cur, visited, kept,
                    benchmarks, returned, traceVars, convVars, drawVars, iterVars, buildVars >>

\* The panic of the assert_eq! of lines 82-90, whose left side is the name
\* recovered from the directory and whose right side is the decoded
\* group_id: its message is the one assert_eq! gives, both sides in their
\* Debug form, without the backquotes it puts around left == right.
NamingAssertion(left, right) ==
    ErrWith(
        "assertion left == right failed: Benchmark group directories do not follow expected naming convention\n  left: {left:?}\n right: {right:?}",
        << left, right >>)

\* A plausible slip: a benchmark with a missing half is skipped, not fatal.
ReconcileStepSkipsIncomplete ==
    /\ pc = "reconcile"
    /\ \E path \in unreconciled :
        LET info == benchmarks[path]
        IN  IF info.benchmark = None \/ info.estimates = None
            THEN /\ unreconciled' = unreconciled \ {path}
                 /\ UNCHANGED << pc, error, result >>
            ELSE IF guess_benchmark_name(path[1])
                        # info.benchmark.some.group_id
            THEN /\ pc' = "panicked"
                 /\ error' = NamingAssertion(guess_benchmark_name(path[1]),
                                             info.benchmark.some.group_id)
                 /\ UNCHANGED << unreconciled, result >>
            ELSE /\ result' = Append(result,
                        BenchmarkInfo(info.benchmark.some, info.estimates.some))
                 /\ unreconciled' = unreconciled \ {path}
                 /\ UNCHANGED << pc, error >>
    /\ UNCHANGED << root_exists, tree, regex, entry, cur, visited, kept,
                    benchmarks, returned, traceVars, convVars, drawVars, iterVars, buildVars >>

\* One turn of the final loop (lines 74-95) over the HashMap, whose
\* iteration order is arbitrary.
ReconcileStep ==
    /\ pc = "reconcile"
    /\ \E path \in unreconciled :
        LET info == benchmarks[path]
        IN  IF info.benchmark = None \/ info.estimates = None
            THEN /\ pc' = "failed"
                 /\ error' = Err(
                      "Did not get all expected data for one benchmark")
                 /\ UNCHANGED << unreconciled, result >>
            ELSE IF guess_benchmark_name(path[1])
                        # info.benchmark.some.group_id
            THEN /\ pc' = "panicked"
                 /\ error' = NamingAssertion(guess_benchmark_name(path[1]),
                                             info.benchmark.some.group_id)
                 /\ UNCHANGED << unreconciled, result >>
            ELSE /\ result' = Append(result,
                        BenchmarkInfo(info.benchmark.some, info.estimates.some))
                 /\ unreconciled' = unreconciled \ {path}
                 /\ UNCHANGED << pc, error >>
    /\ UNCHANGED << root_exists, tree, regex, entry, cur, visited, kept,
                    benchmarks, returned, traceVars, convVars, drawVars, iterVars, buildVars >>

\* read_all returns Ok(result) (line 96) and main hands the records to
\* Traces::new (main.rs line 80).
ReadAllReturn ==
    /\ pc = "reconcile"
    /\ unreconciled = {}
    /\ returned' = Some(result)
    /\ input' = result
    /\ pc' = "traces"
    /\ UNCHANGED << root_exists, tree, regex, error, entry, cur, visited, kept,
                    benchmarks, unreconciled, result, processed, name_to_trace,
                    common_throughput_type, traces, convVars, drawVars, iterVars, buildVars >>

-----------------------------------------------------------------------------
(* usize values.  A usize is its decimal digits without leading zeros      *)
(* (zero is "0"), so that values up to usize::MAX and the overflow of      *)
(* parse() beyond it are represented exactly.                              *)

\* usize::MAX on a 64-bit target: 18446744073709551615
UsizeMax ==
    << "1", "8", "4", "4", "6", "7", "4", "4", "0", "7", "3", "7", "0", "9",
       "5", "5", "1", "6", "1", "5" >>

\* The digits of a digit run without their leading zeros.
RECURSIVE StripZeros(_)
StripZeros(digits) ==
    IF Len(digits) > 1 /\ Head(digits) = "0" THEN StripZeros(Tail(digits))
    ELSE digits

\* <usize as Ord>::cmp
UsizeCmp(a, b) ==
    IF Len(a) < Len(b) THEN "Less"
    ELSE IF Len(a) > Len(b) THEN "Greater"
    ELSE StrCmp(a, b)

\* <usize as FromStr>::from_str, an Option: an optional '+', then one or
\* more ASCII digits whose value fits.
parse_usize(src) ==
    LET digits == IF src # << >> /\ Head(src) = "+" THEN Tail(src) ELSE src
    IN  IF digits = << >> THEN None
        ELSE IF \E i \in 1..Len(digits) : ~is_ascii_digit(digits[i]) THEN None
        ELSE IF UsizeCmp(StripZeros(digits), UsizeMax) = "Greater" THEN None
        ELSE Some(StripZeros(digits))

\* Benchmark::value_usize
value_usize(benchmark) == parse_usize(benchmark.value_str)

-----------------------------------------------------------------------------
(* trace.rs: the natural order of trace names *)

\* <TextAndNumbers as Iterator>::next at character position start of
\* source: None at the end; otherwise the maximal run of characters of the
\* class (ASCII digit or not) of the first one, and the position after it.
\* source[start_idx..=end_idx] ends one byte after the first byte of the
\* run's last character, which is no character boundary when that
\* character takes several bytes: the slice panics.  A digit run beyond
\* usize::MAX makes the expect of line 187 panic.  ByteOffset is the byte
\* index that char_indices gives the character at position i.  The
\* message of the slice panic is the one str gives for the end of a
\* range, without the backquotes it puts around {s_trunc}: it shows the
\* source up to the last character boundary at or below MaxDisplayLength
\* bytes, followed by [...] when that leaves some of it out.
RECURSIVE ByteOffset(_, _)
ByteOffset(source, i) ==
    IF i = 1 THEN 0 ELSE ByteOffset(source, i - 1) + len_utf8(source[i - 1])

MaxDisplayLength == 256

\* source.len(), in bytes.
ByteLen(source) == ByteOffset(source, Len(source) + 1)

\* The number of characters before source.floor_char_boundary(index).
FloorCharBoundary(source, index) ==
    IF index >= ByteLen(source) THEN Len(source)
    ELSE CHOOSE k \in 0..Len(source) :
             /\ ByteOffset(source, k + 1) <= index
             /\ ByteOffset(source, k + 2) > index

s_trunc(source) ==
    SubSeq(source, 1, FloorCharBoundary(source, MaxDisplayLength))
ellipsis(source) ==
    IF FloorCharBoundary(source, MaxDisplayLength) < Len(source)
    THEN "[...]" ELSE ""

\* The run that next() picks from position start (lines 180-184): the
\* position of its last character.
LastOfRun(source, start) ==
    CHOOSE e \in start..Len(source) :
        /\ \A i \in start..e :
               is_ascii_digit(source[i]) = is_ascii_digit(source[start])
        /\ (e = Len(source)
            \/ is_ascii_digit(source[e + 1]) # is_ascii_digit(source[start]))

\* The panic of the slice of line 185, whose end end_idx + 1 is inside
\* the character at position last.
SlicePanic(source, last, end_idx) ==
    [kind |-> "Panic",
     error |-> ErrWith(
         "end byte index {index} is not a char boundary; it is inside {ch:?} (bytes {char_range:?}) of {s_trunc}{ellipsis}",
         << end_idx + 1, source[last], end_idx,
            end_idx + len_utf8(source[last]), s_trunc(source),
            ellipsis(source) >>)]

\* The fragment made of the run from start to last (lines 185-191).
SelectRun(source, start, last) ==
    IF len_utf8(source[last]) > 1
    THEN SlicePanic(source, last, ByteOffset(source, last))
    ELSE IF ~is_ascii_digit(source[start])
    THEN [kind |-> "Text", value |-> SubSeq(source, start, last),
          next |-> last + 1]
    ELSE IF parse_usize(SubSeq(source, start, last)) = None
    THEN [kind |-> "Panic",
          error |-> Err(
              "only picked base-10 digits: ParseIntError { kind: PosOverflow }")]
    ELSE [kind |-> "Number",
          value |-> parse_usize(SubSeq(source, start, last)).some,
          next |-> last + 1]

\* TextAndNumbers::next
TextAndNumbersNext(source, start) ==
    IF start > Len(source) THEN [kind |-> "None"]
    ELSE SelectRun(source, start, LastOfRun(source, start))

\* A plausible slip: digit runs compared as text, not as integers.
TextOrNumberCmpAsText(frag1, frag2) ==
    IF frag1.kind # frag2.kind
    THEN IF frag1.kind = "Text" THEN "Less" ELSE "Greater"
    ELSE StrCmp(frag1.value, frag2.value)

\* <TextOrNumber as Ord>::cmp, derived: Text before Number, then the
\* contents.
TextOrNumberCmp(frag1, frag2) ==
    IF frag1.kind # frag2.kind
    THEN IF frag1.kind = "Text" THEN "Less" ELSE "Greater"
    ELSE IF frag1.kind = "Text" THEN StrCmp(frag1.value, frag2.value)
    ELSE UsizeCmp(frag1.value, frag2.value)

\* An ordering that cmp returns.
Ordering(ordering) == [ordering |-> ordering, error |-> NoError]

\* The inner loop of cmp (lines 137-149) from positions p1 and p2 of two
\* segments: "Less", "Greater", "Equal" (both segments are used up: break)
\* or "Panic", with the message of the panic.  fragments1.next() is
\* called first; MatchFragments is the match on the two fragments.
RECURSIVE CmpFragments(_, _, _, _)
MatchFragments(segment1, segment2, frag1, frag2) ==
    IF frag1.kind = "Panic"
    THEN [ordering |-> "Panic", error |-> frag1.error]
    ELSE IF frag2.kind = "Panic"
    THEN [ordering |-> "Panic", error |-> frag2.error]
    ELSE IF frag1.kind = "None" /\ frag2.kind = "None" THEN Ordering("Equal")
    ELSE IF frag2.kind = "None" THEN Ordering("Greater")
    ELSE IF frag1.kind = "None" THEN Ordering("Less")
    ELSE IF TextOrNumberCmp(frag1, frag2) = "Equal"
         THEN CmpFragments(segment1, segment2, frag1.next, frag2.next)
    ELSE Ordering(TextOrNumberCmp(frag1, frag2))

CmpFragments(segment1, segment2, p1, p2) ==
    MatchFragments(segment1, segment2,
                   TextAndNumbersNext(segment1, p1),
                   TextAndNumbersNext(segment2, p2))

\* The outer loop of cmp (lines 123-150) over the segments from index i;
\* AfterSegment goes on from the outcome of the inner loop.
RECURSIVE CmpSegments(_, _, _)
AfterSegment(segments1, segments2, i, outcome) ==
    IF outcome = Ordering("Equal")
    THEN CmpSegments(segments1, segments2, i + 1)
    ELSE outcome

CmpSegments(segments1, segments2, i) ==
    IF i > Len(segments1) /\ i > Len(segments2) THEN Ordering("Equal")
    ELSE IF i > Len(segments2) THEN Ordering("Greater")
    ELSE IF i > Len(segments1) THEN Ordering("Less")
    ELSE AfterSegment(segments1, segments2, i,
                      CmpFragments(segments1[i], segments2[i], 1, 1))

\* <TraceName as Ord>::cmp
TraceNameCmp(name1, name2) ==
    CmpSegments(split(name1, "/"), split(name2, "/"), 1)

-----------------------------------------------------------------------------
(* trace.rs: MeasurementDisplay *)

MeasurementDisplay(lower_bound, point_estimate, upper_bound) ==
    [lower_bound |-> lower_bound, point_estimate |-> point_estimate,
     upper_bound |-> upper_bound]

\* A plausible slip: the confidence level is not checked.
try_from_any_level(value) ==
    Some(MeasurementDisplay(value.confidence_interval.lower_bound,
                            value.point_estimate,
                            value.confidence_interval.upper_bound))

\* <MeasurementDisplay as TryFrom<Estimate>>::try_from, an Option: None is
\* the error "Expecting standard 95% confidence intervals from Criterion".
try_from(value) ==
    IF ~FEq(value.confidence_interval.confidence_level, F0_95) THEN None
    ELSE Some(MeasurementDisplay(value.confidence_interval.lower_bound,
                                 value.point_estimate,
                                 value.confidence_interval.upper_bound))

\* A plausible slip: the bounds are not swapped.
time_to_throughput_unswapped(self, untyped_throughput) ==
    MeasurementDisplay(
        FDiv(F(untyped_throughput), FMul(self.lower_bound, F1em9)),
        FDiv(F(untyped_throughput), FMul(self.point_estimate, F1em9)),
        FDiv(F(untyped_throughput), FMul(self.upper_bound, F1em9)))

\* MeasurementDisplay::time_to_throughput
time_to_throughput(self, untyped_throughput) ==
    MeasurementDisplay(
        FDiv(F(untyped_throughput), FMul(self.upper_bound, F1em9)),
        FDiv(F(untyped_throughput), FMul(self.point_estimate, F1em9)),
        FDiv(F(untyped_throughput), FMul(self.lower_bound, F1em9)))

-----------------------------------------------------------------------------
(* trace.rs: Traces::new *)

\* BTreeMap's search of a key among the keys of a node, in ascending
\* order (a map of at most 11 entries is a single node): the comparisons
\* key.cmp(k) run from the first key until one is not Greater.  found is
\* the index of an Equal key, or 0 with at the place to insert; a
\* comparison that panics ends the search, at being the key it panicked
\* on.
SearchOutcome(cmps) ==
    LET stops == {i \in 1..Len(cmps) : cmps[i] # "Greater"}
        stop == CHOOSE i \in stops : \A j \in stops : i <= j
    IN  IF stops = {} THEN [panic |-> FALSE, found |-> 0, at |-> Len(cmps) + 1]
        ELSE IF cmps[stop] = "Panic"
             THEN [panic |-> TRUE, found |-> 0, at |-> stop]
        ELSE IF cmps[stop] = "Equal"
             THEN [panic |-> FALSE, found |-> stop, at |-> stop]
        ELSE [panic |-> FALSE, found |-> 0, at |-> stop]

\* The search of a trace name in name_to_trace.
search_name(map, group_id) ==
    SearchOutcome([i \in 1..Len(map) |->
                      TraceNameCmp(group_id, map[i].name).ordering])

\* The search of a problem size in the points of a trace.
search_value(points, value) ==
    SearchOutcome([i \in 1..Len(points) |-> UsizeCmp(value, points[i][1])])

InsertAt(seq, i, x) == SubSeq(seq, 1, i - 1) \o << x >> \o SubSeq(seq, i, Len(seq))

\* A plausible slip: points kept in arrival order (a Vec, not a BTreeMap).
trace_insert_unsorted(points, value, measurement) ==
    LET where == search_value(points, value)
    IN  IF where.found > 0
        THEN [old |-> Some(points[where.found][2]),
              points |-> [points EXCEPT ![where.found] = << value, measurement >>]]
        ELSE [old |-> None, points |-> Append(points, << value, measurement >>)]

\* A plausible slip: a point that is already there is replaced without a
\* word.
trace_insert_overwrites(points, value, measurement) ==
    LET where == search_value(points, value)
    IN  IF where.found > 0
        THEN [old |-> None,
              points |-> [points EXCEPT ![where.found] = << value, measurement >>]]
        ELSE [old |-> None,
              points |-> InsertAt(points, where.at, << value, measurement >>)]

\* BTreeMap<usize, MeasurementDisplay>::insert: the value replaced, if any,
\* and the map, whose points stay in ascending order of problem size.
trace_insert(points, value, measurement) ==
    LET where == search_value(points, value)
    IN  IF where.found > 0
        THEN [old |-> Some(points[where.found][2]),
              points |-> [points EXCEPT ![where.found] = << value, measurement >>]]
        ELSE [old |-> None,
              points |-> InsertAt(points, where.at, << value, measurement >>)]

\* A plausible slip: the check of the common type is left out.
unify_throughput_type_unchecked(common_type, throughput_type) ==
    IF common_type # None
    THEN [ok |-> TRUE, common |-> common_type]
    ELSE [ok |-> TRUE, common |-> Some(throughput_type)]

\* A plausible slip: Bytes and BytesDecimal, both drawn as "B/s", pass for
\* the same type.
unify_throughput_type_by_unit(common_type, throughput_type) ==
    IF common_type # None
    THEN [ok |-> (throughput_type = "Elements") = (common_type.some = "Elements"),
          common |-> common_type]
    ELSE [ok |-> TRUE, common |-> Some(throughput_type)]

\* Lines 38-45: the first record sets the common throughput type, every
\* later one must have it.
unify_throughput_type(common_type, throughput_type) ==
    IF common_type # None
    THEN [ok |-> throughput_type = common_type.some, common |-> common_type]
    ELSE [ok |-> TRUE, common |-> Some(throughput_type)]

\* The ensure! of lines 50-53 on what trace.insert returned, then the map
\* with the trace at `at` updated.
EnsureInserted(with_trace, at, value, inserted, common_after) ==
    IF inserted.old # None
    THEN [end |-> "failed",
          error |-> ErrWith(
              "there should be only one data point associated with value {value}",
              << value >>),
          common |-> common_after]
    ELSE [end |-> "",
          common |-> common_after,
          map |-> [with_trace EXCEPT ![at].data = inserted.points]]

\* trace.insert(value, measurement) on the trace at `at` (line 51).
InsertPoint(with_trace, at, value, measurement, common_after) ==
    EnsureInserted(with_trace, at, value,
                   trace_insert(with_trace[at].data, value, measurement),
                   common_after)

\* name_to_trace.entry(TraceName(group_id)).or_default() (line 49), where
\* `where` is the outcome of the search of the name: a comparison that
\* panicked ends the run, a name that is not there gets an empty trace.
EntryOrDefault(map, group_id, value, measurement, where, common_after) ==
    IF where.panic
    THEN [end |-> "panicked",
          error |-> TraceNameCmp(group_id, map[where.at].name).error,
          common |-> common_after]
    ELSE InsertPoint(IF where.found > 0 THEN map
                     ELSE InsertAt(map, where.at,
                                   [name |-> group_id, data |-> << >>]),
                     where.at, value, measurement, common_after)

\* The body of the loop of Traces::new (lines 27-53) for one record:
\* the error or panic that ends it, or the updated locals.
TracesNewRecordOn(common_throughput_type_, name_to_trace_, benchmark_info) ==
    LET benchmark == benchmark_info.benchmark
        throughput_type == split_throughput(benchmark.throughput)[1]
        untyped_throughput == split_throughput(benchmark.throughput)[2]
    IN  IF value_usize(benchmark) = None
        THEN [end |-> "failed",
              error |-> Err(
                  "expected a usize criterion benchmark ID, got something else"),
              common |-> common_throughput_type_]
        ELSE IF ~unify_throughput_type(common_throughput_type_,
                                       throughput_type).ok
        THEN [end |-> "failed",
              error |-> ErrWith(
                  "expected all traces to use throughput type {common_type:?}, but found {throughput_type:?}",
                  << common_throughput_type_.some, throughput_type >>),
              common |-> common_throughput_type_]
        ELSE IF try_from(benchmark_info.estimates.median) = None
        THEN [end |-> "failed",
              error |-> Err(
                  "Expecting standard 95% confidence intervals from Criterion"),
              common |-> unify_throughput_type(common_throughput_type_,
                                               throughput_type).common]
        ELSE EntryOrDefault(
                 name_to_trace_, benchmark.group_id,
                 value_usize(benchmark).some,
                 time_to_throughput(try_from(benchmark_info.estimates.median).some,
                                    untyped_throughput),
                 search_name(name_to_trace_, benchmark.group_id),
                 unify_throughput_type(common_throughput_type_,
                                       throughput_type).common)

TracesNewRecord(benchmark_info) ==
    TracesNewRecordOn(common_throughput_type, name_to_trace, benchmark_info)

\* One turn of the loop of Traces::new.
TracesNewStep ==
    /\ pc = "traces"
    /\ processed < Len(input)
    /\ \E step \in {TracesNewRecord(input[processed + 1])} :
           /\ processed' = processed + 1
           /\ common_throughput_type' = step.common
           /\ IF step.end = ""
              THEN name_to_trace' = step.map /\ UNCHANGED << pc, error >>
              ELSE /\ pc' = step.end
                   /\ error' = step.error
                   /\ UNCHANGED name_to_trace
    /\ UNCHANGED << ingestVars, input, traces, convVars, drawVars, iterVars, buildVars >>

\* The traces are materialized and returned (lines 55-65).
TracesNewReturn ==
    /\ pc = "traces"
    /\ processed = Len(input)
    /\ traces' = Some([throughput |-> common_throughput_type,
                       per_trace_data |->
                           [i \in 1..Len(name_to_trace) |->
                               [name |-> name_to_trace[i].name,
                                data |-> name_to_trace[i].data]]])
    /\ pc' = "traces_returned"
    /\ UNCHANGED << ingestVars, input, processed, name_to_trace,
                    common_throughput_type, error, convVars, drawVars, iterVars, buildVars >>

\* Traces::new as a function of its input: the loop from its k-th turn on,
\* then the Traces returned, or None when the loop failed or panicked.
RECURSIVE traces_new_from(_, _, _, _), traces_new_after(_, _, _)
traces_new_from(data, k, common_type, map) ==
    IF k > Len(data)
    THEN Some([throughput |-> common_type,
               per_trace_data |->
                   [i \in 1..Len(map) |->
                       [name |-> map[i].name, data |-> map[i].data]]])
    ELSE traces_new_after(data, k, TracesNewRecordOn(common_type, map, data[k]))

traces_new_after(data, k, step) ==
    IF step.end # "" THEN None
    ELSE traces_new_from(data, k + 1, step.common, step.map)

traces_new(data) == traces_new_from(data, 1, None, << >>)

-----------------------------------------------------------------------------
(* main.rs: the end of main *)

\* Traces::is_empty
is_empty(t) == Len(t.per_trace_data) = 0

\* A plausible slip: the check for an empty selection is left out.
CheckEmptySkipped ==
    /\ pc = "traces_returned"
    /\ pc' = "draw"
    /\ UNCHANGED << error, ingestVars, traceVars, convVars, drawVars, iterVars, buildVars >>

\* main, lines 82-85: nothing to plot.
CheckEmpty ==
    /\ pc = "traces_returned"
    /\ IF is_empty(traces.some)
       THEN /\ pc' = "failed"
            /\ error' = Err("Specified regex does not select any trace!")
       ELSE pc' = "draw" /\ error' = error
    /\ UNCHANGED << ingestVars, traceVars, convVars, drawVars, iterVars, buildVars >>

\* usize as f64, which is exact below 2^53: the f64 is written as the
\* integer it holds (the problem sizes of the runs are below 2^31).
RECURSIVE usize_as_f64(_)
usize_as_f64(digits) ==
    IF digits = << >> THEN 0
    ELSE 10 * usize_as_f64(SubSeq(digits, 1, Len(digits) - 1))
         + (CodePoint(digits[Len(digits)]) - 48)

\* The rank of a value among the values of its sign: zero, the subnormal
\* and the normal values in their order, then infinity, then NaN.
MagnitudeLess(a, b) ==
    LET rank(x) == IF x.kind = "fin" THEN 0 ELSE IF x.kind = "inf" THEN 1 ELSE 2
    IN  \/ rank(a) < rank(b)
        \/ /\ a.kind = "fin" /\ b.kind = "fin"
           /\ a.e < b.e \/ (a.e = b.e /\ a.m < b.m)

\* f32::total_cmp: -NaN, -inf, the negative values, -0, +0, the positive
\* values, +inf, +NaN.
total_cmp(a, b) ==
    IF a = b THEN "Equal"
    ELSE IF a.sign # b.sign THEN IF a.sign = 1 THEN "Less" ELSE "Greater"
    ELSE IF MagnitudeLess(a, b) = (a.sign = 0) THEN "Less"
    ELSE "Greater"

\* Iterator::min and Iterator::max on usize: the first minimum, the last
\* maximum.
RECURSIVE usize_min(_)
usize_min(values) ==
    IF Len(values) = 1 THEN values[1]
    ELSE IF UsizeCmp(values[1], usize_min(Tail(values))) # "Greater"
         THEN values[1]
    ELSE usize_min(Tail(values))

RECURSIVE usize_max(_)
usize_max(values) ==
    IF Len(values) = 1 THEN values[1]
    ELSE IF UsizeCmp(values[1], usize_max(Tail(values))) = "Greater"
         THEN values[1]
    ELSE usize_max(Tail(values))

\* Iterator::min_by(f32::total_cmp) and Iterator::max_by(f32::total_cmp)
RECURSIVE min_by_total_cmp(_)
min_by_total_cmp(values) ==
    IF Len(values) = 1 THEN values[1]
    ELSE IF total_cmp(values[1], min_by_total_cmp(Tail(values))) # "Greater"
         THEN values[1]
    ELSE min_by_total_cmp(Tail(values))

RECURSIVE max_by_total_cmp(_)
max_by_total_cmp(values) ==
    IF Len(values) = 1 THEN values[1]
    ELSE IF total_cmp(values[1], max_by_total_cmp(Tail(values))) = "Greater"
         THEN values[1]
    ELSE max_by_total_cmp(Tail(values))

\* per_trace_data.iter().flat_map(|trace| trace.data.iter())
RECURSIVE flat_map_data(_)
flat_map_data(per_trace_data) ==
    IF per_trace_data = << >> THEN << >>
    ELSE per_trace_data[1].data \o flat_map_data(Tail(per_trace_data))

\* A plausible slip: the vertical range is that of the point estimates.
xy_range_of_estimates(self) ==
    LET n == Len(self.per_trace_data)
        points == flat_map_data(self.per_trace_data)
    IN  [panic |-> "",
         x |-> << usize_as_f64(usize_min(
                     [t \in 1..n |-> self.per_trace_data[t].data[1][1]])),
                  usize_as_f64(usize_max(
                     [t \in 1..n |-> self.per_trace_data[t].data[
                          Len(self.per_trace_data[t].data)][1]])) >>,
         y |-> << min_by_total_cmp(
                     [i \in 1..Len(points) |-> points[i][2].point_estimate]),
                  max_by_total_cmp(
                     [i \in 1..Len(points) |-> points[i][2].point_estimate]) >>]

\* Traces::xy_range: the ranges as << start, end >>, or the message of the
\* expect that panics.
xy_range(self) ==
    LET n == Len(self.per_trace_data)
        points == flat_map_data(self.per_trace_data)
    IN  IF \E t \in 1..n : Len(self.per_trace_data[t].data) = 0
        THEN [panic |-> "traces can't be empty"]
        ELSE IF n = 0
        THEN [panic |-> "there should be >= 1 trace"]
        ELSE
        [panic |-> "",
         x |-> << usize_as_f64(usize_min(
                     [t \in 1..n |-> self.per_trace_data[t].data[1][1]])),
                  usize_as_f64(usize_max(
                     [t \in 1..n |-> self.per_trace_data[t].data[
                          Len(self.per_trace_data[t].data)][1]])) >>,
         y |-> << min_by_total_cmp(
                     [i \in 1..Len(points) |-> points[i][2].lower_bound]),
                  max_by_total_cmp(
                     [i \in 1..Len(points) |-> points[i][2].upper_bound]) >>]

\* The label of the Y axis (plot.rs lines 49-53), with the default
\* element_throughput_unit.
y_desc(throughput) ==
    IF throughput = None THEN "s"
    ELSE IF throughput.some = "Elements" THEN "FLOP/s"
    ELSE "B/s"

\* plot::draw (main.rs line 88).  The drawing backend may fail: before the
\* ranges are computed (plot.rs lines 20-23) or later; only present(), at
\* the end, is sure to have written the output file.
Draw ==
    /\ pc = "draw"
    /\ LET range == xy_range(traces.some)
           drawn == Some([x_range |-> range.x, y_range |-> range.y,
                          y_desc |-> y_desc(traces.some.throughput)])
       IN  \E outcome \in {"setup failed", "failed", "ok"} :
             IF outcome = "setup failed"
             THEN /\ pc' = "failed"
                  /\ error' = Err("drawing the performance plot")
                  /\ UNCHANGED << output_written, chart >>
             ELSE IF range.panic # ""
             THEN /\ pc' = "panicked"
                  /\ error' = Err(range.panic)
                  /\ UNCHANGED << output_written, chart >>
             ELSE IF outcome = "failed"
             THEN /\ pc' = "failed"
                  /\ error' = Err("drawing the performance plot")
                  /\ chart' = drawn
                  /\ output_written' \in BOOLEAN
             ELSE /\ pc' = "done"
                  /\ chart' = drawn
                  /\ output_written' = TRUE
                  /\ UNCHANGED error
    /\ UNCHANGED << ingestVars, traceVars, convVars, min_y, max_y, iterVars,
                    buildVars >>

-----------------------------------------------------------------------------
(* Spec: a run of main on a drawn result tree and pattern *)

\* The build and the machine the run is on.  Where no run divides zero
\* by zero (every count is 1) the sign of NaN is never read, and the runs
\* are drawn for one build.
InitBuildVars == nan_sign \in {0, 1}
InitBuildVarsUnread == nan_sign = 0

InitIterVars ==
    /\ iter_source = << >>
    /\ char_indices = 1
    /\ yielded = << >>

InitDrawVars ==
    /\ output_written = FALSE
    /\ min_y = None
    /\ max_y = None
    /\ chart = None

InitTraceVars ==
    /\ input = << >>
    /\ processed = 0
    /\ name_to_trace = << >>
    /\ common_throughput_type = None
    /\ traces = None

InitIngestVars ==
    /\ entry = << >>
    /\ cur = << >>
    /\ visited = {}
    /\ kept = {}
    /\ benchmarks = << >>
    /\ unreconciled = {}
    /\ result = << >>
    /\ returned = None

InitConvVars ==
    /\ conv_input = None
    /\ conv_output = None

InitWith(max_files) ==
    /\ root_exists \in BOOLEAN
    /\ regex \in Patterns
    /\ \E files \in {fs \in SUBSET FileUniverse :
                        Cardinality(fs) <= max_files /\ IsTree(fs)},
          v \in Variants :
           tree = IF root_exists THEN [p \in files |-> ContentOf(p, v)]
                  ELSE << >>
    /\ pc = "read_all"
    /\ error = NoError
    /\ InitBuildVarsUnread
    /\ InitDrawVars
    /\ InitIngestVars
    /\ InitIterVars
    /\ InitTraceVars
    /\ InitConvVars

Init == InitWith(MaxFiles)

Next ==
    \/ ReadAllStart
    \/ WalkStep
    \/ WalkEnd
    \/ ReconcileStep
    \/ ReadAllReturn
    \/ TracesNewStep
    \/ TracesNewReturn
    \/ CheckEmpty
    \/ Draw

Spec == Init /\ [][Next]_vars

\* A run of main goes on until it has ended: the process is scheduled as
\* long as it has a step to take.  Trees of at most MaxFilesLive files.
MaxFilesLive == 2

InitLive == InitWith(MaxFilesLive)

SpecLive == InitLive /\ [][Next]_vars /\ WF_vars(Next)

-----------------------------------------------------------------------------
(* SpecTraces: Traces::new on a drawn sequence of records *)

\* Most records a drawn input holds.
MaxRecords == 3

s_a1 == << "a", "1" >>
s_a01 == << "a", "0", "1" >>
s_b == << "b" >>
s_01 == << "0", "1" >>
s_trace1 == << "t", "r", "a", "c", "e", "1" >>
s_trace2 == << "t", "r", "a", "c", "e", "2" >>
s_trace10 == << "t", "r", "a", "c", "e", "1", "0" >>
s_trace == << "t", "r", "a", "c", "e" >>
s_alg == << "a", "l", "g" >>
s_alg_v1 == << "a", "l", "g", "/", "v", "1" >>
s_alg_v2 == << "a", "l", "g", "/", "v", "2" >>
s_alg_v10 == << "a", "l", "g", "/", "v", "1", "0" >>

\* The median time of a drawn record: distinct per trace name and value.
RecordTime(group_id, value_str) ==
    (IF group_id = s_a1 THEN 1 ELSE IF group_id = s_a01 THEN 2 ELSE 3)
    + (IF value_str = s_1 THEN 0 ELSE 3)

\* The f32 decoded from a median time written as a whole number of ns,
\* and from the confidence levels 0.95, 0.9 and 0.95000005, whose f32 is
\* the one that follows the f32 of 0.95.
Nanoseconds(time) == deserialize_f32(JsonNumber(0, time, 0))
Level0_95 == deserialize_f32(JsonNumber(0, 95, 2))
Level0_9 == deserialize_f32(JsonNumber(0, 9, 1))
Level0_9500001 == deserialize_f32(JsonNumber(0, 9500001, 7))
Level0_95000005 == deserialize_f32(JsonNumber(0, 95000005, 8))

Record(group_id, value_str, type, confidence_level) ==
    BenchmarkInfo(
        Benchmark(group_id, value_str, Throughput(type, 1)),
        Estimates(Estimate(confidence_level,
                           Nanoseconds(RecordTime(group_id, value_str)),
                           Nanoseconds(RecordTime(group_id, value_str) + 1),
                           Nanoseconds(RecordTime(group_id, value_str) + 2))))

\* Records of three trace names (two of which differ only in how a number
\* is written), two problem sizes and two throughput types, and five more:
\* the third throughput type, a value with a leading zero, a value that is
\* no integer, a 90% confidence interval, and a level one f32 above 0.95.
RecordUniverse ==
    {Record(g, v, t, Level0_95) :
        g \in {s_a1, s_a01, s_b}, v \in {s_1, s_2}, t \in {"Bytes", "Elements"}}
    \cup {Record(s_a1, s_1, "BytesDecimal", Level0_95),
          Record(s_a1, s_01, "Bytes", Level0_95),
          Record(s_a1, s_x, "Elements", Level0_95),
          Record(s_a1, s_2, "Bytes", Level0_9),
          Record(s_b, s_2, "Bytes", Level0_95000005)}

\* The sequences over set of at most n elements.
SeqsUpTo(set, n) == UNION {[1..k -> set] : k \in 0..n}

InitTraces ==
    /\ input \in SeqsUpTo(RecordUniverse, MaxRecords)
    /\ processed = 0
    /\ name_to_trace = << >>
    /\ common_throughput_type = None
    /\ traces = None
    /\ pc = "traces"
    /\ error = NoError
    /\ InitBuildVarsUnread
    /\ InitDrawVars
    /\ root_exists = FALSE
    /\ tree = << >>
    /\ regex = << >>
    /\ InitIngestVars
    /\ InitIterVars
    /\ InitConvVars

NextTraces ==
    \/ TracesNewStep
    \/ TracesNewReturn

SpecTraces == InitTraces /\ [][NextTraces]_vars

-----------------------------------------------------------------------------
(* SpecNames: Traces::new on records that differ in their trace name *)

NameUniverse ==
    {s_trace1, s_trace2, s_trace10, s_trace,
     s_alg, s_alg_v1, s_alg_v2, s_alg_v10}

InitNames ==
    /\ input \in SeqsUpTo({Record(g, s_1, "Bytes", Level0_95) : g \in NameUniverse},
                          MaxRecords)
    /\ processed = 0
    /\ name_to_trace = << >>
    /\ common_throughput_type = None
    /\ traces = None
    /\ pc = "traces"
    /\ error = NoError
    /\ InitBuildVarsUnread
    /\ InitDrawVars
    /\ root_exists = FALSE
    /\ tree = << >>
    /\ regex = << >>
    /\ InitIngestVars
    /\ InitIterVars
    /\ InitConvVars

SpecNames == InitNames /\ [][NextTraces]_vars

-----------------------------------------------------------------------------
(* SpecDraw: Traces::new and plot::draw on drawn records and Y bounds *)

\* Records of two traces and two problem sizes, two of a third trace (one
\* whose time interval starts at 0 ns, one of 0 bytes in 0 ns, whose
\* throughput is NaN), and one that counts elements.
DrawRecordUniverse ==
    {Record(g, v, "Bytes", Level0_95) : g \in {s_a1, s_b}, v \in {s_1, s_2}}
    \cup {BenchmarkInfo(Benchmark(s_trace, s_2, Throughput("Bytes", 1)),
                        Estimates(Estimate(Level0_95, Nanoseconds(0),
                                           Nanoseconds(1), Nanoseconds(2)))),
          BenchmarkInfo(Benchmark(s_trace, s_1, Throughput("Bytes", 0)),
                        Estimates(Estimate(Level0_95, Nanoseconds(0),
                                           Nanoseconds(0), Nanoseconds(0)))),
          Record(s_b, s_1, "Elements", Level0_95)}

\* The values of --min-y and --max-y: absent, or 2e9 (<f32 as FromStr>).
ForcedBounds == {None, Some(RoundRatio[0, 2 * Pow10[9], 1, 0])}

InitDraw ==
    /\ input \in SeqsUpTo(DrawRecordUniverse, MaxRecords)
    /\ min_y \in ForcedBounds
    /\ max_y \in ForcedBounds
    /\ chart = None
    /\ output_written = FALSE
    /\ processed = 0
    /\ name_to_trace = << >>
    /\ common_throughput_type = None
    /\ traces = None
    /\ pc = "traces"
    /\ error = NoError
    /\ InitBuildVars
    /\ root_exists = FALSE
    /\ tree = << >>
    /\ regex = << >>
    /\ InitIngestVars
    /\ InitIterVars
    /\ InitConvVars

NextDraw ==
    \/ TracesNewStep
    \/ TracesNewReturn
    \/ CheckEmpty
    \/ Draw

SpecDraw == InitDraw /\ [][NextDraw]_vars

-----------------------------------------------------------------------------
(* SpecFragments: TextAndNumbers on a drawn name segment *)

\* Longest segment drawn from SegmentChars.
MaxSegment == 3

SegmentChars == {"a", "0", "7", NonAscii}

\* The short segments over SegmentChars, usize::MAX, and usize::MAX with
\* one more digit.
SegmentUniverse ==
    SeqsUpTo(SegmentChars, MaxSegment) \cup {UsizeMax, UsizeMax \o << "0" >>}

InitFragments ==
    /\ iter_source \in SegmentUniverse
    /\ char_indices = 1
    /\ yielded = << >>
    /\ pc = "fragments"
    /\ error = NoError
    /\ InitBuildVarsUnread
    /\ root_exists = FALSE
    /\ tree = << >>
    /\ regex = << >>
    /\ InitIngestVars
    /\ InitTraceVars
    /\ InitConvVars
    /\ InitDrawVars

\* One call of <TextAndNumbers as Iterator>::next, by a consumer that
\* calls it until it answers None.
FragmentsNext ==
    /\ pc = "fragments"
    /\ LET item == TextAndNumbersNext(iter_source, char_indices)
       IN  IF item.kind = "None"
           THEN pc' = "fragments_done" /\ UNCHANGED << error, char_indices, yielded >>
           ELSE IF item.kind = "Panic"
           THEN /\ pc' = "panicked"
                /\ error' = item.error
                /\ UNCHANGED << char_indices, yielded >>
           ELSE /\ yielded' = Append(yielded,
                                     [kind |-> item.kind, value |-> item.value,
                                      first |-> char_indices,
                                      last |-> item.next - 1])
                /\ char_indices' = item.next
                /\ UNCHANGED << pc, error >>
    /\ UNCHANGED << ingestVars, traceVars, convVars, drawVars, iter_source,
                    buildVars >>

NextFragments == FragmentsNext

SpecFragments == InitFragments /\ [][NextFragments]_vars

-----------------------------------------------------------------------------
(* SpecConv: the conversion of one median estimate to a throughput *)

\* Largest time bound (ns) and largest raw count drawn.
MaxTime == 7
MaxCount == 2

\* The levels decoded from the JSON numbers 0.95, 0.95000001, 0.95000005,
\* 0.9500001 and 0.9.
ConvLevels ==
    {Level0_95, deserialize_f32(JsonNumber(0, 95000001, 8)),
     Level0_95000005, Level0_9500001, Level0_9}
\* The time bounds decoded from -0.0 and 0, 1, ... MaxTime, and values at
\* the ends of f32: the smallest positive one, whose product with 1e-9 is
\* 0; one whose product is subnormal; one that makes 8 / (t * 1e-9)
\* overflow; two on which the rounding is the furthest off; the largest
\* finite one; the infinity, which a JSON number above f32::MAX decodes to.
ConvTimes ==
    {deserialize_f32(JsonNumber(1, 0, 1))}
    \cup {Nanoseconds(time) : time \in 0..MaxTime}
    \cup {Fin(0, 1, MinExponent), Fin(0, 15805308, -122),
          Fin(0, 15625001, -119), Fin(0, 16763366, -98),
          Fin(0, 16764912, 44),
          Fin(0, Pow2[MantissaDigits] - 1, MaxExponent), PosInf}
\* The counts 0, 1, ... MaxCount, and larger ones: 8, two that `as f32`
\* rounds (2^24 + 1 and 35630262), and 2^31 - 1.
ConvCounts == 0..MaxCount \cup {8, 16777217, 35630262, 2147483647}

InitConv ==
    /\ conv_input \in
          {[median |-> Estimate(cl, lb, pe, ub), untyped_throughput |-> n] :
              cl \in ConvLevels,
              lb \in ConvTimes, pe \in ConvTimes, ub \in ConvTimes,
              n \in ConvCounts}
    /\ conv_output = None
    /\ pc = "convert"
    /\ error = NoError
    /\ InitBuildVars
    /\ InitDrawVars
    /\ root_exists = FALSE
    /\ tree = << >>
    /\ regex = << >>
    /\ InitIngestVars
    /\ InitIterVars
    /\ InitTraceVars

\* Traces::new, lines 46-47:
\* MeasurementDisplay::try_from(median)?.time_to_throughput(untyped_throughput)
Convert ==
    /\ pc = "convert"
    /\ IF try_from(conv_input.median) = None
       THEN /\ pc' = "failed"
            /\ error' = Err(
                 "Expecting standard 95% confidence intervals from Criterion")
            /\ UNCHANGED conv_output
       ELSE /\ pc' = "converted"
            /\ conv_output' =
                  Some(time_to_throughput(try_from(conv_input.median).some,
                                          conv_input.untyped_throughput))
            /\ UNCHANGED error
    /\ UNCHANGED << ingestVars, traceVars, conv_input, drawVars, iterVars, buildVars >>

NextConv == Convert

SpecConv == InitConv /\ [][NextConv]_vars

-----------------------------------------------------------------------------
(* The ingestor's properties *)

DataFileNames == {s_benchmark_json, s_estimates_json}

\* What is required of component i of a relative path for the entry to be
\* kept: 1 is not "report" and the recovered trace name matches the
\* pattern, 2 is not "report", 3 is "new", 4 is a data file's name.
ComponentPasses(i, name) ==
    CASE i = 1 -> name # s_report /\ is_match(regex, guess_benchmark_name(name))
      [] i = 2 -> name # s_report
      [] i = 3 -> name = s_new
      [] i = 4 -> name \in DataFileNames
      [] OTHER -> TRUE

PassesAllComponents(e) ==
    \A i \in 1..Len(e) : i <= 4 => ComponentPasses(i, e[i])

\* C1: the filter keeps an entry exactly when each of its (at most four
\* first) components passes; every file loaded, and so every key of the
\* records read_all builds its output from, lies in a "new" directory
\* below no "report" directory.
C1_FilterKeepsExactly ==
    /\ \A e \in visited : (e \in kept) <=> PassesAllComponents(e)
    /\ \A e \in kept :
          Len(e) >= 4 => e[1] # s_report /\ e[2] # s_report /\ e[3] = s_new
    /\ \A k \in DOMAIN benchmarks :
          /\ Len(k) = 3 /\ k[1] # s_report /\ k[2] # s_report /\ k[3] = s_new
          /\ \E e \in kept : Len(e) = 4 /\ parent(e) = k

\* A data file was kept and loaded while a report directory and an older
\* dataset were pruned.
C1_Witness ==
    /\ \E e \in kept : Len(e) = 4 /\ parent(e) \in DOMAIN benchmarks
    /\ \E d \in visited \ kept : d[Len(d)] = s_report
    /\ \E d \in visited \ kept : Len(d) = 3 /\ d[3] = s_base

\* The benchmark directories <group_dir>/<value_dir> of the tree.
BenchmarkDirs == {SubSeq(p, 1, 2) : p \in {q \in DOMAIN tree : Len(q) >= 4}}

\* Its new/ directory holds both data files.
HoldsBoth(d) ==
    /\ << d[1], d[2], s_new, s_benchmark_json >> \in DOMAIN tree
    /\ << d[1], d[2], s_new, s_estimates_json >> \in DOMAIN tree

\* The number of records of out that carry the metadata and the estimates
\* written in the two data files of benchmark directory d.
TimesReturned(out, d) ==
    LET meta == tree[<< d[1], d[2], s_new, s_benchmark_json >>]
        est == tree[<< d[1], d[2], s_new, s_estimates_json >>]
    IN  IF meta.kind # "benchmark" \/ est.kind # "estimates" THEN 0
        ELSE Cardinality({i \in 1..Len(out) :
                 out[i] = BenchmarkInfo(meta.json, decode_estimates(est).some)})

Selected(d) == HoldsBoth(d) /\ is_match(regex, guess_benchmark_name(d[1]))

ReadAllEnded == pc \notin {"read_all", "walk", "reconcile"}

\* A benchmark directory no part of read_all objects to: neither it nor
\* its group directory is named "report", its new/ directory holds both
\* data files, both decode, and the name recovered from the group
\* directory is the group_id of its metadata.
SoundBenchmark(d) ==
    /\ d[1] # s_report /\ d[2] # s_report
    /\ HoldsBoth(d)
    /\ tree[<< d[1], d[2], s_new, s_benchmark_json >>].kind = "benchmark"
    /\ tree[<< d[1], d[2], s_new, s_estimates_json >>].kind = "estimates"
    /\ guess_benchmark_name(d[1])
          = tree[<< d[1], d[2], s_new, s_benchmark_json >>].json.group_id

\* Every file of the tree is in the new/ directory of such a benchmark.
OnlySoundBenchmarks ==
    \A p \in DOMAIN tree :
        Len(p) = 4 /\ p[3] = s_new /\ SoundBenchmark(<< p[1], p[2] >>)

\* C2, on the trees that favour it most, those whose every file is in the
\* new/ directory of a sound benchmark: once read_all has ended, every
\* benchmark whose group name matches the pattern and whose new/ directory
\* holds both data files is in the output exactly once.
C2_ReturnedExactlyOnce ==
    (ReadAllEnded /\ OnlySoundBenchmarks) =>
        \A d \in BenchmarkDirs :
            Selected(d) => returned # None /\ TimesReturned(returned.some, d) = 1

\* C3: a file of a kept new/ directory that bears no data file's name is
\* ignored: it is not kept, and the run does not end on it.
C3_OtherFilesIgnored ==
    \A e \in visited :
        (Len(e) = 4 /\ parent(e) \in kept /\ e[4] \notin DataFileNames)
            => e \notin kept /\ ~(pc \in {"failed", "panicked"} /\ entry = e)

Incomplete ==
    {k \in DOMAIN benchmarks :
        benchmarks[k].benchmark = None \/ benchmarks[k].estimates = None}

\* The complete keys whose recovered name is not their group_id.
Misnamed ==
    {k \in DOMAIN benchmarks \ Incomplete :
        guess_benchmark_name(k[1]) # benchmarks[k].benchmark.some.group_id}

IncompleteAfterWalk == Incomplete # {} /\ unreconciled # {}

MissingDataError == Err("Did not get all expected data for one benchmark")

\* Every record pushed so far has both halves.
NoHalfRecord ==
    \A i \in 1..Len(result) :
        \E k \in DOMAIN benchmarks \ Incomplete :
            result[i] = BenchmarkInfo(benchmarks[k].benchmark.some,
                                      benchmarks[k].estimates.some)

\* C4 as stated: once the walk is over with a key that lacks its metadata
\* or its estimates, read_all returns no Vec and ends in no other way than
\* by the error "Did not get all expected data for one benchmark".
C4_Original ==
    IncompleteAfterWalk =>
        /\ returned = None
        /\ pc \in {"reconcile", "failed"}
        /\ pc = "failed" => error = MissingDataError
        /\ NoHalfRecord

\* C4, amended: once the walk is over with a key that lacks its metadata
\* or its estimates, read_all returns no Vec, and no record pushed has a
\* missing half: the final loop ends by the error "Did not get all
\* expected data for one benchmark", or by the panic of the naming
\* assertion on a complete key whose recovered name is not its group_id;
\* without such a key it can only end by the error.
C4_ReconciliationTotal ==
    IncompleteAfterWalk =>
        /\ returned = None
        /\ Incomplete \subseteq unreconciled
        /\ pc \in {"reconcile", "failed", "panicked"}
        /\ pc = "failed" => error = MissingDataError
        /\ pc = "panicked" =>
              \E k \in Misnamed \cap unreconciled :
                  error = NamingAssertion(guess_benchmark_name(k[1]),
                                          benchmarks[k].benchmark.some.group_id)
        /\ NoHalfRecord

\* The final loop failed on a key without estimates, after it had pushed
\* the record of a complete key.
C4_Witness ==
    /\ pc = "failed"
    /\ error = MissingDataError
    /\ Len(result) >= 1
    /\ \E k \in unreconciled :
          benchmarks[k].benchmark # None /\ benchmarks[k].estimates = None

\* Criterion's directory name of a group: every '/' of the name becomes '_'.
DirectoryName(name) ==
    [i \in 1..Len(name) |-> IF name[i] = "/" THEN "_" ELSE name[i]]

HasUnderscore(name) == \E i \in 1..Len(name) : name[i] = "_"

\* The keys whose metadata is loaded and stored under the convention.
StoredByConvention ==
    {k \in DOMAIN benchmarks :
        /\ benchmarks[k].benchmark # None
        /\ k[1] = DirectoryName(benchmarks[k].benchmark.some.group_id)}

\* The naming assertion of the final loop panicked, on a complete key.
NamingPanic ==
    /\ pc = "panicked"
    /\ \E k \in unreconciled \ Incomplete :
          error = NamingAssertion(guess_benchmark_name(k[1]),
                                  benchmarks[k].benchmark.some.group_id)

\* C5 as stated: every group name stored under the convention is recovered
\* from its directory name, and the naming assertion never fails when all
\* the benchmarks it checks are stored under the convention.
C5_Original ==
    /\ \A k \in StoredByConvention :
          guess_benchmark_name(k[1]) = benchmarks[k].benchmark.some.group_id
    /\ NamingPanic => ~(unreconciled \ Incomplete \subseteq StoredByConvention)

\* C5, amended: the same for group names that contain no '_'.
C5_RoundTrip ==
    /\ \A k \in StoredByConvention :
          ~HasUnderscore(benchmarks[k].benchmark.some.group_id)
              => guess_benchmark_name(k[1])
                    = benchmarks[k].benchmark.some.group_id
    /\ NamingPanic =>
          \E k \in unreconciled \ Incomplete :
              \/ k \notin StoredByConvention
              \/ HasUnderscore(benchmarks[k].benchmark.some.group_id)

\* The final loop accepted group a/b, stored in directory a_b.
C5_Witness ==
    \E i \in 1..Len(result) :
        /\ result[i].benchmark.group_id = s_a_slash_b
        /\ << s_a_b, s_1, s_new >> \in StoredByConvention \ unreconciled

-----------------------------------------------------------------------------
(* The trace builder's properties *)

TypeOf(record) == record.benchmark.throughput.type

MixedTypes ==
    \E i \in 1..Len(input), j \in 1..Len(input) :
        TypeOf(input[i]) # TypeOf(input[j])

\* The first record whose throughput type is not the first record's.
FirstOther ==
    CHOOSE j \in 1..Len(input) :
        /\ TypeOf(input[j]) # TypeOf(input[1])
        /\ \A i \in 1..(j - 1) : TypeOf(input[i]) = TypeOf(input[1])

ThroughputError(expected, found) ==
    ErrWith("expected all traces to use throughput type {common_type:?}, but found {throughput_type:?}",
            << expected, found >>)

TracesNewEnded == pc # "traces"

\* C6 as stated: on records of at least two throughput types Traces::new
\* fails, whatever their order, with the error that names the first
\* record's type and the offending one, and returns no Traces.
C6_Original ==
    (MixedTypes /\ TracesNewEnded) =>
        /\ pc = "failed"
        /\ traces = None
        /\ error = ThroughputError(TypeOf(input[1]), TypeOf(input[processed]))
        /\ TypeOf(input[processed]) # TypeOf(input[1])

\* C6, amended: on such records Traces::new fails, whatever their order,
\* and returns no Traces; it ends no later than at the first record whose
\* type is not the first record's, and when it gets to the type check of
\* that record (its value_str parses) the error names the first record's
\* type and that record's.
C6_MixedTypesFail ==
    MixedTypes =>
        /\ traces = None
        /\ processed <= FirstOther
        /\ TracesNewEnded =>
              /\ pc \in {"failed", "panicked"}
              /\ (processed = FirstOther
                  /\ value_usize(input[FirstOther].benchmark) # None)
                    => error = ThroughputError(TypeOf(input[1]),
                                               TypeOf(input[FirstOther]))

\* The third record is the first of another type, and the error names both.
C6_Witness ==
    /\ pc = "failed"
    /\ processed = 3
    /\ error = ThroughputError("Bytes", "Elements")

\* C7: a returned Traces with traces in it has Some(t), t the type of
\* every record; its throughput is None exactly when no record was
\* supplied, which is when it has no trace; and the common type, once set,
\* is never changed.
C7_Returned ==
    traces # None =>
        /\ Len(traces.some.per_trace_data) > 0 =>
              /\ traces.some.throughput # None
              /\ \A i \in 1..Len(input) :
                    TypeOf(input[i]) = traces.some.throughput.some
        /\ (traces.some.throughput = None) <=> (Len(input) = 0)
        /\ (Len(input) = 0) <=> (Len(traces.some.per_trace_data) = 0)

C7_CommonThroughput ==
    /\ []C7_Returned
    /\ [][common_throughput_type # None
            => common_throughput_type' = common_throughput_type]_vars

\* Three records of elements were built into two traces.
C7_Witness ==
    /\ traces # None
    /\ traces.some.throughput = Some("Elements")
    /\ Len(traces.some.per_trace_data) = 2
    /\ Len(input) = 3

\* The number a usize stands for (small values).
RECURSIVE NatOf(_)
NatOf(digits) ==
    IF digits = << >> THEN 0
    ELSE 10 * NatOf(SubSeq(digits, 1, Len(digits) - 1))
         + (CodePoint(digits[Len(digits)]) - 48)

\* C9: every trace of a returned Traces has a point, and its points are in
\* strictly ascending order of problem size.
C9_PointsAscending ==
    traces # None =>
        \A t \in 1..Len(traces.some.per_trace_data) :
            LET data == traces.some.per_trace_data[t].data
            IN  /\ Len(data) >= 1
                /\ \A i \in 1..(Len(data) - 1) :
                      NatOf(data[i][1]) < NatOf(data[i + 1][1])

\* Size 2 was supplied before size 1 of the same trace.
C9_Witness ==
    /\ traces # None
    /\ Len(input) >= 2
    /\ input[1].benchmark.value_str = s_2
    /\ input[2].benchmark.value_str = s_1
    /\ input[1].benchmark.group_id = input[2].benchmark.group_id
    /\ Len(traces.some.per_trace_data[1].data) >= 2

-----------------------------------------------------------------------------
(* The conversion law *)

\* a <= b and a < b, as IEEE compares: false as soon as one side is NaN,
\* the two zeros being equal.
FLe(a, b) ==
    /\ a.kind # "nan" /\ b.kind # "nan"
    /\ FEq(a, b) \/ total_cmp(a, b) = "Less"
FLt(a, b) == FLe(a, b) /\ ~FEq(a, b)

\* The place of a value among the f32 values of its sign: values that
\* follow each other have places that follow each other, and the infinity
\* has the place after the largest finite value's.
Place(x) ==
    IF x.kind = "inf"
    THEN (MaxExponent - MinExponent) * Pow2[MantissaDigits - 1]
         + Pow2[MantissaDigits]
    ELSE (x.e - MinExponent) * Pow2[MantissaDigits - 1] + x.m

\* a * b as hi * 2^30 + lo, for a below 2^31 and b below 2^24, computed
\* on digits of 12 bits.
WideMul(a, b) ==
    LET digit == Pow2[12]
        a0 == a % digit
        a1 == (a \div digit) % digit
        a2 == a \div Pow2[24]
        b0 == b % digit
        b1 == b \div digit
        k0 == a0 * b0
        k1 == k0 \div digit + a0 * b1 + a1 * b0
        k2 == k1 \div digit + a1 * b1 + a2 * b0
        k3 == k2 \div digit + a2 * b1
    IN  [hi |-> (k2 % digit) \div Pow2[6] + k3 * Pow2[6],
         lo |-> (k0 % digit) + (k1 % digit) * digit
                + (k2 % Pow2[6]) * Pow2[24]]

\* Bit k, from the most significant of 52, of hi * 2^30 + lo.
WideBit(hi, lo, k) ==
    IF k <= 22 THEN (hi \div Pow2[22 - k]) % 2 ELSE (lo \div Pow2[52 - k]) % 2

\* The long division of hi * 2^30 + lo by d, from bit k on: the first 26
\* bits of the quotient (q), the number of bits it has after them
\* (dropped), whether one of those is set (sticky), and the remainder (r).
WideDiv[hi \in Nat, lo \in Nat, d \in Nat, k \in Nat, q \in Nat, r \in Nat, dropped \in Nat, sticky \in BOOLEAN] ==
    IF k > 52 THEN [q |-> q, r |-> r, dropped |-> dropped, sticky |-> sticky]
    ELSE IF 2 * r + WideBit(hi, lo, k) >= d
    THEN IF q >= Pow2[MantissaDigits + 1]
         THEN WideDiv[hi, lo, d, k + 1, q, 2 * r + WideBit(hi, lo, k) - d,
                      dropped + 1, TRUE]
         ELSE WideDiv[hi, lo, d, k + 1, 2 * q + 1,
                      2 * r + WideBit(hi, lo, k) - d, dropped, sticky]
    ELSE IF q >= Pow2[MantissaDigits + 1]
         THEN WideDiv[hi, lo, d, k + 1, q, 2 * r + WideBit(hi, lo, k),
                      dropped + 1, sticky]
         ELSE WideDiv[hi, lo, d, k + 1, 2 * q,
                      2 * r + WideBit(hi, lo, k), dropped, sticky]

\* The f32 nearest to (hi * 2^30 + lo) / d * 2^e, the quotient being
\* carried on below the unit when it has fewer than 26 bits.
RoundWideRatio(whole, d, e) ==
    IF whole.q >= Pow2[MantissaDigits + 1]
    THEN RoundToF32[0, whole.q, whole.sticky \/ whole.r # 0, e + whole.dropped]
    ELSE LET quotient == LongDiv[whole.q, whole.r, d, 0, MantissaDigits + 2]
         IN  RoundToF32[0, quotient.q, quotient.r # 0, e - quotient.k]

\* The f32 nearest to n * 1e9 / time, which is n * 5^9 * 2^9 over the
\* time, for a count n in 1..2^31-1 and a positive finite time.
Nearest(n, time) ==
    LET product == WideMul(n, Pow10[9] \div Pow2[9])
    IN  RoundWideRatio(
            WideDiv[product.hi, product.lo, time.m, 1, 0, 0, 0, FALSE],
            time.m, 9 - time.e)

\* The product of the time with the literal 1e-9 is a normal f32: the
\* time is 2^-126 * 1e9 ns (about 1.18e-29 ns) or more.
ProductNormal(time) ==
    /\ FMul(time, F1em9).kind = "fin"
    /\ FMul(time, F1em9).m >= Pow2[MantissaDigits - 1]

\* out is n * 1e9 / time up to the rounding of f32 arithmetic.  A zero
\* time gives what IEEE gives a division by zero.  For a positive finite
\* time whose product with 1e-9 is normal, a count of 0 gives 0, and a
\* positive count a value at most 3 places, and 2 for a count up to 2^24
\* (that `as f32` does not round), from the f32 nearest to the quotient.
UpToRounding(out, n, time) ==
    IF IsZero(time)
    THEN IF n = 0 THEN out.kind = "nan" ELSE out = Inf(time.sign)
    ELSE IF ~(time.kind = "fin" /\ time.sign = 0 /\ ProductNormal(time))
    THEN TRUE
    ELSE IF n = 0 THEN out = Zero(0)
    ELSE /\ out.kind \in {"fin", "inf"} /\ out.sign = 0
         /\ Place(out) - Place(Nearest(n, time))
               \in IF n <= Pow2[MantissaDigits] THEN -2..2 ELSE -3..3

ConversionLaw ==
    LET lb == conv_input.median.confidence_interval.lower_bound
        pe == conv_input.median.point_estimate
        ub == conv_input.median.confidence_interval.upper_bound
        n == conv_input.untyped_throughput
        out == conv_output.some
    IN  /\ UpToRounding(out.point_estimate, n, pe)
        /\ UpToRounding(out.lower_bound, n, ub)
        /\ UpToRounding(out.upper_bound, n, lb)

InputOrdered ==
    /\ FLe(conv_input.median.confidence_interval.lower_bound,
           conv_input.median.point_estimate)
    /\ FLe(conv_input.median.point_estimate,
           conv_input.median.confidence_interval.upper_bound)

\* 0 <= lb, which -0.0 meets, and 0 < lb.
InputNonNegative ==
    FLe(Zero(0), conv_input.median.confidence_interval.lower_bound)
InputPositive ==
    FLt(Zero(0), conv_input.median.confidence_interval.lower_bound)

OutputOrdered ==
    /\ FLe(conv_output.some.lower_bound, conv_output.some.point_estimate)
    /\ FLe(conv_output.some.point_estimate, conv_output.some.upper_bound)

\* C8 as stated, its equalities read up to the rounding of f32: the
\* measurement emitted for time bounds (lb, pe, ub) and count n is
\* (n*1e9/ub, n*1e9/pe, n*1e9/lb), and it is ordered whenever the time
\* bounds are ordered and non-negative.
C8_Original ==
    pc = "converted" =>
        /\ ConversionLaw
        /\ (InputOrdered /\ InputNonNegative) => OutputOrdered

\* C8, amended: the measurement emitted is (n*1e9/ub, n*1e9/pe, n*1e9/lb)
\* up to the rounding of f32 arithmetic (for a positive time whose product
\* with 1e-9 is a normal f32, at most 3 f32 values from the nearest f32 of
\* the quotient, 2 for a count up to 2^24, the infinity counting as the
\* value after the largest), and it is ordered whenever the time bounds
\* are ordered and positive and the count is positive.
C8_ConversionLaw ==
    pc = "converted" =>
        /\ ConversionLaw
        /\ (/\ InputOrdered
            /\ InputPositive
            /\ conv_input.untyped_throughput > 0) => OutputOrdered

\* 8 items in 15625001 * 2^-119 ns, 5 ns, 7 ns: the throughput's upper
\* bound comes from the time's lower bound and is the infinity, where the
\* f32 nearest to the quotient is the largest finite value; its lower
\* bound comes from the time's upper bound and is 1142857216, one place
\* above the f32 nearest to 8e9/7.
C8_Witness ==
    /\ pc = "converted"
    /\ conv_input.untyped_throughput = 8
    /\ conv_input.median.confidence_interval.lower_bound
          = Fin(0, 15625001, -119)
    /\ conv_input.median.point_estimate = Nanoseconds(5)
    /\ conv_input.median.confidence_interval.upper_bound = Nanoseconds(7)
    /\ conv_output.some.upper_bound = PosInf
    /\ Nearest(8, Fin(0, 15625001, -119))
          = Fin(0, Pow2[MantissaDigits] - 1, MaxExponent)
    /\ conv_output.some.point_estimate = Fin(0, 12500000, 7)
    /\ conv_output.some.lower_bound = Fin(0, 8928572, 7)
    /\ Place(conv_output.some.lower_bound)
          = Place(Nearest(8, Nanoseconds(7))) + 1

-----------------------------------------------------------------------------
(* The natural order of names *)

\* The maximal runs of digits and of other characters of a segment.
RECURSIVE Runs(_)
Runs(segment) ==
    IF segment = << >> THEN << >>
    ELSE LET d == is_ascii_digit(segment[1])
             k == CHOOSE k \in 1..Len(segment) :
                    /\ \A i \in 1..k : is_ascii_digit(segment[i]) = d
                    /\ k = Len(segment) \/ is_ascii_digit(segment[k + 1]) # d
         IN  << [digits |-> d, text |-> SubSeq(segment, 1, k)] >>
             \o Runs(SubSeq(segment, k + 1, Len(segment)))

\* Digit runs as integers, other runs as text; a digit run against a run
\* of other characters is left open.
RunOrder(a, b) ==
    IF a.digits /\ b.digits
    THEN IF NatOf(a.text) < NatOf(b.text) THEN "Less"
         ELSE IF NatOf(a.text) > NatOf(b.text) THEN "Greater"
         ELSE "Equal"
    ELSE IF ~a.digits /\ ~b.digits THEN StrCmp(a.text, b.text)
    ELSE "Unspecified"

RECURSIVE RunsOrder(_, _)
RunsOrder(ra, rb) ==
    IF ra = << >> /\ rb = << >> THEN "Equal"
    ELSE IF ra = << >> THEN "Less"
    ELSE IF rb = << >> THEN "Greater"
    ELSE IF RunOrder(ra[1], rb[1]) # "Equal" THEN RunOrder(ra[1], rb[1])
    ELSE RunsOrder(Tail(ra), Tail(rb))

RECURSIVE SegmentsOrder(_, _)
SegmentsOrder(sa, sb) ==
    IF sa = << >> /\ sb = << >> THEN "Equal"
    ELSE IF sa = << >> THEN "Less"
    ELSE IF sb = << >> THEN "Greater"
    ELSE IF RunsOrder(Runs(sa[1]), Runs(sb[1])) # "Equal"
         THEN RunsOrder(Runs(sa[1]), Runs(sb[1]))
    ELSE SegmentsOrder(Tail(sa), Tail(sb))

NaturalOrder(a, b) == SegmentsOrder(split(a, "/"), split(b, "/"))

InputNames == {input[i].benchmark.group_id : i \in 1..Len(input)}

EmittedNames ==
    [t \in 1..Len(traces.some.per_trace_data) |->
        traces.some.per_trace_data[t].name]

\* C10: Traces::new emits the traces in ascending natural order of their
\* names, whatever the order of the input: segment by segment, a
\* segment-prefix first, digit runs as integers and other runs as text;
\* trace2, trace10, trace1 come out as trace1, trace2, trace10, and
\* alg/v1, alg/v2, alg/v10 in this order.
C10_NaturalNameOrder ==
    traces # None =>
        /\ \A i \in 1..Len(EmittedNames), j \in 1..Len(EmittedNames) :
              i < j => NaturalOrder(EmittedNames[i], EmittedNames[j]) = "Less"
        /\ InputNames = {s_trace1, s_trace2, s_trace10}
              => EmittedNames = << s_trace1, s_trace2, s_trace10 >>
        /\ InputNames = {s_alg_v1, s_alg_v2, s_alg_v10}
              => EmittedNames = << s_alg_v1, s_alg_v2, s_alg_v10 >>

\* trace2, trace10, trace1 were supplied in this order.
C10_Witness ==
    /\ traces # None
    /\ Len(input) = 3
    /\ input[1].benchmark.group_id = s_trace2
    /\ input[2].benchmark.group_id = s_trace10
    /\ input[3].benchmark.group_id = s_trace1
    /\ Len(traces.some.per_trace_data) = 3

-----------------------------------------------------------------------------
(* The driver's properties *)

\* The regex matches the name recovered from no directory of the root.
NoGroupMatches ==
    /\ root_exists
    /\ \A path \in DOMAIN tree :
          ~is_match(regex, guess_benchmark_name(path[1]))

EmptySelection ==
    /\ pc = "failed"
    /\ error = Err("Specified regex does not select any trace!")

C11_NothingDrawn ==
    /\ NoGroupMatches =>
          /\ pc \notin {"draw", "done", "panicked"}
          /\ pc = "failed" => EmptySelection
          /\ chart = None
          /\ ~output_written
    /\ output_written =>
          /\ returned # None
          /\ traces # None
          /\ ~is_empty(traces.some)

\* C11: when the root exists and the regex matches no group, the run ends
\* with the error "Specified regex does not select any trace" and
\* plot::draw is never entered, so the output file is never written; and
\* the output file is only ever written after read_all and Traces::new
\* have both returned and the Traces holds a trace.
C11_EmptySelection ==
    /\ []C11_NothingDrawn
    /\ NoGroupMatches ~> EmptySelection

\* A tree with a complete benchmark of group a, and a regex that does not
\* match a: the run has ended on the empty selection.
C11_Witness ==
    /\ NoGroupMatches
    /\ << s_a, s_1, s_new, s_benchmark_json >> \in DOMAIN tree
    /\ << s_a, s_1, s_new, s_estimates_json >> \in DOMAIN tree
    /\ EmptySelection
    /\ returned = Some(<< >>)

-----------------------------------------------------------------------------
(* The confidence level *)

LevelOf(record) == record.estimates.median.confidence_interval.confidence_level

OtherLevel == {i \in 1..Len(input) : LevelOf(input[i]) # F0_95}

LevelError ==
    Err("Expecting standard 95% confidence intervals from Criterion")

\* C12: if the median estimate of a record has a confidence level other
\* than 0.95, Traces::new fails and no Traces is built; the check that
\* rejects the record is the conversion of its estimate, which is what
\* ends the run when the record is reached and has passed the checks that
\* come before it; a Traces is only built from estimates of level 0.95.
C12_ConfidenceLevel ==
    /\ OtherLevel # {} =>
          /\ traces = None
          /\ \A i \in OtherLevel : processed <= i
          /\ TracesNewEnded =>
                /\ pc \in {"failed", "panicked"}
                /\ \A i \in OtherLevel :
                      (/\ processed = i
                       /\ value_usize(input[i].benchmark) # None
                       /\ TypeOf(input[i]) = TypeOf(input[1]))
                          => pc = "failed" /\ error = LevelError
    /\ error = LevelError => processed \in OtherLevel
    /\ traces # None => OtherLevel = {}

\* The level of the second record is the f32 that follows 0.95:
\* Traces::new failed on it, after it had taken the first.
C12_Witness ==
    /\ Len(input) = 2
    /\ OtherLevel = {2}
    /\ LevelOf(input[2]) = Fin(0, F0_95.m + 1, F0_95.e)
    /\ processed = 2
    /\ pc = "failed"
    /\ error = LevelError
    /\ traces = None

-----------------------------------------------------------------------------
(* The ranges of the chart *)

\* The points of all the traces of the Traces returned.
AllPoints ==
    UNION {{traces.some.per_trace_data[t].data[i] :
               i \in 1..Len(traces.some.per_trace_data[t].data)} :
           t \in 1..Len(traces.some.per_trace_data)}

LowerBounds == {p[2].lower_bound : p \in AllPoints}
UpperBounds == {p[2].upper_bound : p \in AllPoints}
ProblemSizes == {NatOf(p[1]) : p \in AllPoints}

\* The order of floats in which a NaN is above every other value.
NaNLastLe(a, b) == b.kind = "nan" \/ FLe(a, b)

\* The order of f32::total_cmp, which ranks a NaN by its sign bit.
TotalLe(a, b) == total_cmp(a, b) # "Greater"

\* The horizontal range goes from the smallest to the largest problem
\* size of all the points.
HorizontalRange ==
    /\ chart.some.x_range[1] \in ProblemSizes
    /\ chart.some.x_range[2] \in ProblemSizes
    /\ \A size \in ProblemSizes :
          chart.some.x_range[1] <= size /\ size <= chart.some.x_range[2]

\* C13 as stated, with the order of floats its source names: on a Traces
\* that holds a trace xy_range does not fail, and the ranges it returns go
\* from the smallest to the largest problem size of all the points, and
\* from the smallest lower bound to the largest upper bound of all the
\* points, a NaN counting as larger than any other value.
C13_Original ==
    /\ (traces # None /\ ~is_empty(traces.some)) =>
          /\ xy_range(traces.some).panic = ""
          /\ pc # "panicked"
    /\ chart # None =>
          /\ HorizontalRange
          /\ chart.some.y_range[1] \in LowerBounds
          /\ \A v \in LowerBounds : NaNLastLe(chart.some.y_range[1], v)
          /\ chart.some.y_range[2] \in UpperBounds
          /\ \A v \in UpperBounds : NaNLastLe(v, chart.some.y_range[2])

\* C13, amended: on a Traces that holds a trace xy_range does not fail,
\* and the ranges it returns go from the smallest to the largest problem
\* size of all the points, and from the smallest lower bound to the
\* largest upper bound of all the points in the order of f32::total_cmp,
\* which is the order of the values when no bound is NaN.
C13_Ranges ==
    /\ (traces # None /\ ~is_empty(traces.some)) =>
          /\ xy_range(traces.some).panic = ""
          /\ pc # "panicked"
    /\ chart # None =>
          /\ HorizontalRange
          /\ chart.some.y_range[1] \in LowerBounds
          /\ \A v \in LowerBounds : TotalLe(chart.some.y_range[1], v)
          /\ chart.some.y_range[2] \in UpperBounds
          /\ \A v \in UpperBounds : TotalLe(v, chart.some.y_range[2])
          /\ (\A v \in LowerBounds \cup UpperBounds : v.kind # "nan") =>
                /\ \A v \in LowerBounds : FLe(chart.some.y_range[1], v)
                /\ \A v \in UpperBounds : FLe(v, chart.some.y_range[2])

\* A chart of two traces and three points has been set up, one of them
\* the point of 0 bytes in 0 ns, whose NaN bounds have their sign bit
\* set: the vertical range starts at NaN although another lower bound is
\* a number.
C13_Witness ==
    /\ chart # None
    /\ Len(traces.some.per_trace_data) = 2
    /\ Cardinality(AllPoints) = 3
    /\ chart.some.x_range = << 1, 2 >>
    /\ chart.some.y_range[1] = NaN(1)
    /\ chart.some.y_range[2].kind = "fin"
    /\ \E v \in LowerBounds : v.kind = "fin"

\* C14: the Y axis of the chart starts at min_y when it is given and ends
\* at max_y when it is given, and at the end of the computed range when
\* the bound is absent.
C14_ForcedBounds ==
    chart # None =>
        /\ IF min_y # None THEN chart.some.y_range[1] = min_y.some
           ELSE /\ chart.some.y_range[1] \in LowerBounds
                /\ \A v \in LowerBounds : TotalLe(chart.some.y_range[1], v)
        /\ IF max_y # None THEN chart.some.y_range[2] = max_y.some
           ELSE /\ chart.some.y_range[2] \in UpperBounds
                /\ \A v \in UpperBounds : TotalLe(v, chart.some.y_range[2])

-----------------------------------------------------------------------------
(* Order, duplicates and grouping in the trace builder *)

\* The orderings of a sequence of records.
Orderings(data) ==
    {[i \in 1..Len(data) |-> data[f[i]]] :
        f \in {g \in [1..Len(data) -> 1..Len(data)] :
                  \A i, j \in 1..Len(data) : g[i] = g[j] => i = j}}

\* C15: Traces::new gives the same outcome on every ordering of its
\* records: once it has ended on the input, it has failed and fails on
\* every other ordering, or it has returned a Traces and returns the same
\* Traces on every other ordering.
C15_OrderIndependent ==
    TracesNewEnded => \A other \in Orderings(input) : traces_new(other) = traces

\* Two records of one trace whose value_str are the same number.
SameTraceAndSize ==
    {pair \in (1..Len(input)) \X (1..Len(input)) :
        /\ pair[1] < pair[2]
        /\ input[pair[1]].benchmark.group_id = input[pair[2]].benchmark.group_id
        /\ \A k \in {pair[1], pair[2]} :
              /\ input[k].benchmark.value_str # << >>
              /\ \A c \in 1..Len(input[k].benchmark.value_str) :
                    is_ascii_digit(input[k].benchmark.value_str[c])
        /\ NatOf(input[pair[1]].benchmark.value_str)
              = NatOf(input[pair[2]].benchmark.value_str)}

DuplicateError(value) ==
    ErrWith("there should be only one data point associated with value {value}",
            << value >>)

\* The points of all the traces, each with the place of its trace.
PlacedPoints ==
    UNION {{<< t, traces.some.per_trace_data[t].data[i] >> :
               i \in 1..Len(traces.some.per_trace_data[t].data)} :
           t \in 1..Len(traces.some.per_trace_data)}

\* C16: with two records of one trace whose value_str parse to the same
\* number, Traces::new fails and returns nothing; and no point is ever
\* overwritten or merged: a returned Traces has one point for each record,
\* with the size and the measurement of that record.
C16_DuplicatesFail ==
    /\ SameTraceAndSize # {} =>
          /\ traces = None
          /\ \A pair \in SameTraceAndSize : processed <= pair[2]
          /\ TracesNewEnded => pc \in {"failed", "panicked"}
    /\ traces # None =>
          /\ Cardinality(PlacedPoints) = Len(input)
          /\ \A i \in 1..Len(input) :
                \E p \in PlacedPoints :
                    /\ NatOf(p[2][1]) = NatOf(input[i].benchmark.value_str)
                    /\ p[2][2] = time_to_throughput(
                                    try_from(input[i].estimates.median).some,
                                    input[i].benchmark.throughput.value)

\* Size 1 and size 01 of trace a1: Traces::new failed on the second.
C16_Witness ==
    /\ Len(input) = 2
    /\ input[1].benchmark.group_id = s_a1
    /\ input[1].benchmark.value_str = s_1
    /\ input[2].benchmark.group_id = s_a1
    /\ input[2].benchmark.value_str = s_01
    /\ pc = "failed"
    /\ error = DuplicateError(s_1)

\* C17: in a returned Traces two records are in the same trace exactly
\* when their group_id are the same text: there are as many traces as
\* distinct group_id, and every record's point is in the trace that bears
\* the record's group_id.
C17_GroupedByExactName ==
    traces # None =>
        /\ Len(traces.some.per_trace_data) = Cardinality(InputNames)
        /\ \A i \in 1..Len(input) :
              \E t \in 1..Len(traces.some.per_trace_data) :
                  /\ traces.some.per_trace_data[t].name
                        = input[i].benchmark.group_id
                  /\ \E k \in 1..Len(traces.some.per_trace_data[t].data) :
                        NatOf(traces.some.per_trace_data[t].data[k][1])
                            = NatOf(input[i].benchmark.value_str)

-----------------------------------------------------------------------------
(* The decomposition of a segment *)

\* C18: on every segment the iterator ends without failure, and the
\* fragments it has yielded are the maximal runs of the segment: they are
\* not empty, they follow one another from the first character to the
\* last, digit runs and other runs alternate, a digit run is reported as
\* its number and another run as its text.
C18_Decomposition ==
    /\ pc # "panicked"
    /\ pc = "fragments_done" =>
          /\ Len(yielded) = 0 <=> iter_source = << >>
          /\ \A k \in 1..Len(yielded) :
                /\ yielded[k].first <= yielded[k].last
                /\ yielded[k].first
                      = IF k = 1 THEN 1 ELSE yielded[k - 1].last + 1
                /\ k = Len(yielded) => yielded[k].last = Len(iter_source)
                /\ k > 1 => yielded[k].kind # yielded[k - 1].kind
                /\ \A i \in yielded[k].first..yielded[k].last :
                      is_ascii_digit(iter_source[i])
                          <=> yielded[k].kind = "Number"
                /\ yielded[k].kind = "Text" =>
                      yielded[k].value
                          = SubSeq(iter_source, yielded[k].first, yielded[k].last)
                /\ yielded[k].kind = "Number" =>
                      yielded[k].value
                          = StripZeros(SubSeq(iter_source, yielded[k].first,
                                              yielded[k].last))

=============================================================================
